---- MODULE Spec2Model ----
(***************************************************************************)
(* tmux-agent: the watch scan loop (runWatch, cmd.go) and the idle         *)
(* classifier it uses (detectIdle, tmux.go).                               *)
(*                                                                         *)
(* One goroutine runs `for { select { ... } }` over three channels: the    *)
(* ticker channel, the signal channel and ctx.Done().  A step of the model *)
(* is one receive of the select together with the code that follows it up  *)
(* to the next blocking external call: the ticker branch up to and         *)
(* including listTmuxPanes, then one iteration of the `for i := range      *)
(* panes` loop per step (capturePaneOutput and everything after it).  The  *)
(* environment delivers signals, fires the ticker and advances the clock   *)
(* between those steps.                                                    *)
(*                                                                         *)
(* The pure functions of tmux.go (isTargetCommand, buildProcessTree,       *)
(* findTargetDescendant, findTargetChild, lookupChildProcess,              *)
(* parsePaneList, detectIdle, statusShort) are operators.  The text they   *)
(* take apart (command names, paths, the output of ps and of tmux) is a    *)
(* sequence of one-character strings, split by operators that follow       *)
(* strings.Split, strings.Fields and strings.TrimSpace.  The               *)
(* specifications TreeSpec, PaneSpec, LookupSpec and IdleSpec draw the     *)
(* arguments of one call in their initial states and apply the function in *)
(* one step; the variable pure holds the call and its result.              *)
(***************************************************************************)
EXTENDS Integers, Sequences, FiniteSets, TLC

\* ------------------------------------------------------------------ bounds
\* The clock runs over 0..MaxTime (time.Time, in units of the model).
MaxTime == 2
\* idleThreshold (--idle) is drawn from 0..MaxThreshold.
MaxThreshold == 1
\* Largest advance of the clock between the time.Now() of cmd.go:671 and the
\* time.Since() of tmux.go:140 inside one loop iteration.
MaxStepDelay == 1
\* Lines of a process listing below its header.
MaxProcs == 3
\* Rows of a pane listing.
MaxPaneRows == 2

\* ------------------------------------------------------------------ inputs
\* tmux pane identifiers that listings may contain.
PaneIDs == {"%1", "%2"}
\* Trimmed texts capturePaneOutput may return.
Outputs == {"a", "b"}
\* The target command parsePaneList resolves for each pane of this run.
PaneCommand == [id \in PaneIDs |-> IF id = "%1" THEN "claude" ELSE "codex"]
\* Signals registered with signal.Notify.
Signals == {"interrupt", "terminated"}
NoSig == "none"
\* The error results of the two external calls.
ListErr == "tmux list-panes: error"
CaptureErr == "tmux capture-pane: error"

\* No pure function call is under study (the watch loop's specifications).
NoCall == [fn |-> "none"]

VARIABLES
    pc,             \* "select" | "list" | "scan" | "stopped": position of the goroutine
    idleThreshold,  \* runWatch's idleThreshold
    now,            \* the wall clock
    tickerC,        \* scanTicker.C holds a tick (channel of capacity 1)
    sigCh,          \* sigCh: NoSig when empty, else the buffered signal
    sig,            \* the signal received by `case sig := <-sigCh`
    panes,          \* the slice returned by listTmuxPanes on this tick
    i,              \* index of the range loop (1-based), 0 outside a tick
    paneOutputs,    \* map[string]string
    paneLastChange, \* map[string]time.Time
    trace,          \* external calls and log lines of the most recent tick
    active,         \* number of ticks whose body is being executed
    allChanged,     \* pane ID -> every capture so far changed the snapshot
    missed,         \* pane ID -> has a snapshot and was since absent from a listing
    captured,       \* pane ID -> the latest output captured and since when every
                    \*            capture has returned it
    pure            \* the call of a pure function under study: arguments, result

vars == <<pc, idleThreshold, now, tickerC, sigCh, sig, panes, i, paneOutputs,
          paneLastChange, trace, active, allChanged, missed, captured, pure>>

\* ----------------------------------------------------------------- helpers
\* All sequences over S without repetition.
RECURSIVE DistinctSeqs(_)
DistinctSeqs(S) ==
    IF S = {} THEN {<<>>}
    ELSE {<<>>} \cup UNION {{<<x>> \o t : t \in DistinctSeqs(S \ {x})} : x \in S}

IDsOf(ps) == {ps[k].ID : k \in DOMAIN ps}

\* paneInfo as parsePaneList builds it: LastChangeAt is the build time.
PaneInfo(id, cmd, t) ==
    [ID |-> id, Command |-> cmd, LastOutput |-> "", LastChangeAt |-> t]

\* The results listTmuxPanes can return without error at time t: panes with
\* distinct IDs, each running a target command, stamped with t.
PaneLists(t) ==
    {[k \in DOMAIN ids |-> PaneInfo(ids[k], PaneCommand[ids[k]], t)] :
        ids \in DistinctSeqs(PaneIDs)}

\* Log lines and external calls, as they are recorded in trace.
CallList(r) == <<"call", "list-panes", r>>
CallCapture(id, r) == <<"call", "capture-pane", id, r>>
LogWarn == <<"log", "[warn] failed to list panes">>
LogIdle(p) == <<"log", "[idle] pane", p.ID, p.Command>>
LogShutdown(s) == <<"log", "received, shutting down", s>>

\* Reading the trace: the idle lines of a pane, and the capture calls.
IsIdleLine(e, id) == e[1] = "log" /\ e[2] = "[idle] pane" /\ e[3] = id
IdleLines(tr, id) == Cardinality({k \in DOMAIN tr : IsIdleLine(tr[k], id)})
IsCapture(e) == e[1] = "call" /\ e[2] = "capture-pane"
CapturedIDs(tr) ==
    LET cs == SelectSeq(tr, IsCapture) IN [k \in DOMAIN cs |-> cs[k][3]]

\* ------------------------------------------------------------ strings
\* Command names and paths, character by character.
claude == <<"c", "l", "a", "u", "d", "e">>
codex == <<"c", "o", "d", "e", "x">>
node == <<"n", "o", "d", "e">>
zsh == <<"z", "s", "h">>
EmptyStr == <<>>
Slash == "/"
Space == " "
Tab == "\t"
NL == "\n"
CR == "\r"
\* dir + "/" + base
Path(dir, base) == dir \o <<Slash>> \o base
binCodex == Path(<<>>, Path(<<"b">>, codex))
Claude == <<"C">> \o Tail(claude)
claudeCode == claude \o <<"-">> \o SubSeq(codex, 1, 4)
codex2 == codex \o <<"2">>

\* Commands on which isTargetCommand is studied: the two targets, names that
\* contain or extend them, other cases of letters, and paths around them.
SampleCommands ==
    { claude, codex, node, zsh, EmptyStr,
      Claude, claudeCode, codex2,
      <<"x">> \o claude,                         \* xclaude
      SubSeq(claude, 1, 5),                      \* claud
      binCodex,                                  \* /b/codex
      Path(<<"b">>, claude),                     \* b/claude
      Path(claude, node),                        \* claude/node
      Path(codex, EmptyStr),                     \* codex/
      Path(EmptyStr, EmptyStr),                  \* /
      Path(Path(node, <<"m">>), Path(codex, codex)) }  \* node/m/codex/codex

\* ------------------------------------------------------ package strings
\* unicode.IsSpace, on the characters the listings are made of.
IsSpace(c) == c \in {Space, Tab, NL, CR}

\* strings.TrimSpace.
RECURSIVE TrimLeft(_)
TrimLeft(s) == IF s # <<>> /\ IsSpace(Head(s)) THEN TrimLeft(Tail(s)) ELSE s

RECURSIVE TrimRight(_)
TrimRight(s) ==
    IF s # <<>> /\ IsSpace(s[Len(s)]) THEN TrimRight(SubSeq(s, 1, Len(s) - 1)) ELSE s

TrimSpace(s) == TrimRight(TrimLeft(s))

\* strings.Split(s, sep) for a separator of one character: the pieces
\* between the separators, the piece from start on being the one under way.
RECURSIVE SplitFrom(_, _, _, _)
SplitFrom(s, sep, start, k) ==
    IF k > Len(s) THEN <<SubSeq(s, start, Len(s))>>
    ELSE IF s[k] = sep
         THEN <<SubSeq(s, start, k - 1)>> \o SplitFrom(s, sep, k + 1, k + 1)
         ELSE SplitFrom(s, sep, start, k + 1)

Split(s, sep) == SplitFrom(s, sep, 1, 1)

\* strings.Fields: the maximal runs of characters that are not white space;
\* start is where the run under way began, 0 between runs.
RECURSIVE FieldsFrom(_, _, _)
FieldsFrom(s, start, k) ==
    IF k > Len(s)
    THEN IF start = 0 THEN <<>> ELSE <<SubSeq(s, start, Len(s))>>
    ELSE IF IsSpace(s[k])
         THEN IF start = 0 THEN FieldsFrom(s, 0, k + 1)
              ELSE <<SubSeq(s, start, k - 1)>> \o FieldsFrom(s, 0, k + 1)
         ELSE FieldsFrom(s, IF start = 0 THEN k ELSE start, k + 1)

Fields(s) == FieldsFrom(s, 0, 1)

\* ------------------------------------------------------------ tmux.go
\* strings.LastIndex(s, "/"), counted from 1; 0 when there is none.
LastIndexSlash(s) ==
    IF \E k \in DOMAIN s : s[k] = Slash
    THEN CHOOSE k \in DOMAIN s : s[k] = Slash /\ \A j \in DOMAIN s : s[j] = Slash => j <= k
    ELSE 0

\* The text after the last "/" (tmux.go:33-36 and 79-82).
Basename(s) == SubSeq(s, LastIndexSlash(s) + 1, Len(s))

\* isTargetCommand comparing the whole command, path included.
isTargetCommand_NoBasename(cmd) == cmd = claude \/ cmd = codex

\* isTargetCommand (tmux.go:32-38).
isTargetCommand(cmd) ==
    LET base == Basename(cmd) IN base = claude \/ base = codex

\* psEntry (tmux.go:41-44).
PsEntry(pid, comm) == [pid |-> pid, comm |-> comm]

\* tree[pid] of a Go map: the empty slice for a missing key.
Children(tree, pid) == IF pid \in DOMAIN tree THEN tree[pid] ELSE <<>>

\* buildProcessTree (tmux.go:46-57): the loop over the lines of psOutput,
\* at line k.
RECURSIVE BuildLoop(_, _, _)
BuildLoop(lines, k, tree) ==
    IF k > Len(lines) THEN tree
    ELSE LET fields == Fields(lines[k]) IN
         IF Len(fields) < 3 THEN BuildLoop(lines, k + 1, tree)
         ELSE LET pid  == fields[1]
                  ppid == fields[2]
                  comm == fields[3]
              IN  BuildLoop(lines, k + 1,
                            (ppid :> Append(Children(tree, ppid), PsEntry(pid, comm)))
                                @@ tree)

buildProcessTree(psOutput) == BuildLoop(Split(TrimSpace(psOutput), NL), 1, <<>>)

\* The goroutine stack ends the recursion of findTargetDescendant at some
\* depth; no listing whose parent relation is acyclic gets there.
StackOverflow == <<"fatal error: stack overflow">>

\* findTargetDescendant that looks at the direct children only.
RECURSIVE FindLoop_ChildrenOnly(_, _, _, _)
FindLoop_ChildrenOnly(tree, pid, k, depth) ==
    LET cs == Children(tree, pid) IN
    IF k > Len(cs) THEN EmptyStr
    ELSE IF isTargetCommand(cs[k].comm) THEN cs[k].comm
         ELSE FindLoop_ChildrenOnly(tree, pid, k + 1, depth)

\* findTargetDescendant that returns whatever the first child's subtree gives.
RECURSIVE FindLoop_FirstChildOnly(_, _, _, _)
FindLoop_FirstChildOnly(tree, pid, k, depth) ==
    LET cs == Children(tree, pid) IN
    IF depth = 0 THEN StackOverflow
    ELSE IF k > Len(cs) THEN EmptyStr
    ELSE IF isTargetCommand(cs[k].comm) THEN cs[k].comm
         ELSE FindLoop_FirstChildOnly(tree, cs[k].pid, 1, depth - 1)

\* findTargetDescendant that tests all children before it descends.
RECURSIVE FindLoop_ChildrenFirst(_, _, _, _)
FindLoop_ChildrenFirst(tree, pid, k, depth) ==
    LET cs == Children(tree, pid)
        direct == SelectSeq(cs, LAMBDA c : isTargetCommand(c.comm))
    IN  IF depth = 0 THEN StackOverflow
        ELSE IF direct # <<>> /\ k = 1 THEN direct[1].comm
        ELSE IF k > Len(cs) THEN EmptyStr
        ELSE LET found == FindLoop_ChildrenFirst(tree, cs[k].pid, 1, depth - 1)
             IN  IF found # EmptyStr THEN found
                 ELSE FindLoop_ChildrenFirst(tree, pid, k + 1, depth)

\* findTargetDescendant (tmux.go:61-71): the loop over tree[pid] from its
\* k-th child on, with depth stack frames left.
RECURSIVE FindLoop(_, _, _, _)
FindLoop(tree, pid, k, depth) ==
    LET cs == Children(tree, pid) IN
    IF depth = 0 THEN StackOverflow
    ELSE IF k > Len(cs) THEN EmptyStr
    ELSE IF isTargetCommand(cs[k].comm) THEN cs[k].comm
    ELSE LET found == FindLoop(tree, cs[k].pid, 1, depth - 1)
         IN  IF found # EmptyStr THEN found
             ELSE FindLoop(tree, pid, k + 1, depth)

\* Frames available to a search over a listing: more than it has lines, so
\* that only a search that never ends runs out of them.
StackDepth(psOutput) == Len(Split(psOutput, NL)) + 2

findTargetDescendant(tree, pid, depth) == FindLoop(tree, pid, 1, depth)

\* findTargetChild that returns the command as ps printed it.
findTargetChild_NoBasename(psOutput, panePID) ==
    findTargetDescendant(buildProcessTree(psOutput), panePID, StackDepth(psOutput))

\* findTargetChild (tmux.go:75-85).
findTargetChild(psOutput, panePID) ==
    LET tree  == buildProcessTree(psOutput)
        found == findTargetDescendant(tree, panePID, StackDepth(psOutput))
    IN  IF found = StackOverflow THEN StackOverflow
        ELSE IF found # EmptyStr THEN Basename(found)
        ELSE EmptyStr

\* The outcome of cmd.Output() for ps (tmux.go:89-90): what ps wrote, and
\* whether running it ended in an error.
PsFailed(text) == [err |-> TRUE, out |-> text]
PsPrinted(text) == [err |-> FALSE, out |-> text]

\* lookupChildProcess that searches whatever came back, error or not.
lookupChildProcess_IgnoresErr(ps, panePID) == findTargetChild(ps.out, panePID)

\* lookupChildProcess (tmux.go:88-95), ps being what the command gave.
lookupChildProcess(ps, panePID) ==
    IF ps.err THEN EmptyStr ELSE findTargetChild(ps.out, panePID)

\* The paneInfo literal of tmux.go:127-133 with the stamp left at zero.
paneInfo_NoStamp(id, cmd, pid, dir, t) ==
    [ID |-> id, Command |-> cmd, PID |-> pid, Dir |-> dir,
     LastOutput |-> EmptyStr, LastChangeAt |-> 0]

\* The paneInfo literal of tmux.go:127-133; t is what time.Now() returns.
paneInfo(id, cmd, pid, dir, t) ==
    [ID |-> id, Command |-> cmd, PID |-> pid, Dir |-> dir,
     LastOutput |-> EmptyStr, LastChangeAt |-> t]

\* The loop body of parsePaneList asking the lookup for every row.
ParseLine_LooksUpAll(line, st, childLookupFn, clock) ==
    LET fields == Split(line, Tab) IN
    IF line = EmptyStr \/ Len(fields) < 3 THEN st
    ELSE LET pid   == fields[3]
             dir   == IF Len(fields) >= 4 THEN fields[4] ELSE EmptyStr
             t     == clock[Len(st.panes) + 1]
             child == childLookupFn[pid]
             asked == Append(st.calls, pid)
         IN  IF isTargetCommand(fields[2])
             THEN [panes |-> Append(st.panes, paneInfo(fields[1], fields[2], pid, dir, t)),
                   calls |-> asked]
             ELSE IF child # EmptyStr
                  THEN [panes |-> Append(st.panes, paneInfo(fields[1], child, pid, dir, t)),
                        calls |-> asked]
                  ELSE [st EXCEPT !.calls = asked]

\* The loop body of parsePaneList putting the new record in front.
ParseLine_Prepends(line, st, childLookupFn, clock) ==
    LET fields == Split(line, Tab) IN
    IF line = EmptyStr \/ Len(fields) < 3 THEN st
    ELSE LET pid  == fields[3]
             dir  == IF Len(fields) >= 4 THEN fields[4] ELSE EmptyStr
             t    == clock[Len(st.panes) + 1]
         IN  IF isTargetCommand(fields[2])
             THEN [st EXCEPT !.panes = <<paneInfo(fields[1], fields[2], pid, dir, t)>> \o @]
             ELSE LET child == childLookupFn[pid] IN
                  IF child # EmptyStr
                  THEN [panes |-> <<paneInfo(fields[1], child, pid, dir, t)>> \o st.panes,
                        calls |-> Append(st.calls, pid)]
                  ELSE [st EXCEPT !.calls = Append(@, pid)]

\* The loop body of parsePaneList (tmux.go:106-133) for one line.  st holds
\* the slice panes and the pids childLookupFn has been called with; clock[n]
\* is what the n-th time.Now() of the call returns.
ParseLine(line, st, childLookupFn, clock) ==
    LET fields == Split(line, Tab) IN
    IF line = EmptyStr THEN st
    ELSE IF Len(fields) < 3 THEN st
    ELSE LET cmd == fields[2]
             pid == fields[3]
             dir == IF Len(fields) >= 4 THEN fields[4] ELSE EmptyStr
             t   == clock[Len(st.panes) + 1]
         IN  IF ~isTargetCommand(cmd)
             THEN LET child == childLookupFn[pid] IN
                  IF child # EmptyStr
                  THEN [panes |-> Append(st.panes, paneInfo(fields[1], child, pid, dir, t)),
                        calls |-> Append(st.calls, pid)]
                  ELSE [st EXCEPT !.calls = Append(@, pid)]
             ELSE [st EXCEPT !.panes = Append(@, paneInfo(fields[1], cmd, pid, dir, t))]

RECURSIVE ParseLoop(_, _, _, _, _)
ParseLoop(lines, k, st, childLookupFn, clock) ==
    IF k > Len(lines) THEN st
    ELSE ParseLoop(lines, k + 1, ParseLine(lines[k], st, childLookupFn, clock),
                   childLookupFn, clock)

\* parsePaneList (tmux.go:104-136) with the package variable childLookupFn
\* (tmux.go:99) as a parameter; the result carries the calls of childLookupFn
\* next to the returned slice.
parsePaneList(output, childLookupFn, clock) ==
    ParseLoop(Split(TrimSpace(output), NL), 1, [panes |-> <<>>, calls |-> <<>>],
              childLookupFn, clock)

\* detectIdle with a strict comparison.
detectIdle_Strict(p, threshold, clock) == clock - p.LastChangeAt > threshold

\* detectIdle: time.Since(p.LastChangeAt) >= threshold, the clock reading clock.
detectIdle(p, threshold, clock) == clock - p.LastChangeAt >= threshold

\* The verb %d of fmt.Sprintf for a number that is not negative.
RECURSIVE Itoa(_)
Itoa(n) ==
    LET digit == <<"0", "1", "2", "3", "4", "5", "6", "7", "8", "9">>[(n % 10) + 1] IN
    IF n < 10 THEN <<digit>> ELSE Itoa(n \div 10) \o <<digit>>

\* fmt.Sprintf("tmux-agent: %d active, %d idle", a, b) (tmux.go:153).
StatusFormat(a, b) ==
    <<"t", "m", "u", "x", "-", "a", "g", "e", "n", "t", ":", " ">> \o Itoa(a)
        \o <<" ", "a", "c", "t", "i", "v", "e", ",", " ">> \o Itoa(b)
        \o <<" ", "i", "d", "l", "e">>

\* The loop of statusShort (tmux.go:146-152) at pane j; clock[j] is what the
\* clock shows when detectIdle looks at pane j.
RECURSIVE StatusLoop(_, _, _, _, _, _)
StatusLoop(ps, j, nActive, nIdle, threshold, clock) ==
    IF j > Len(ps) THEN [active |-> nActive, idle |-> nIdle]
    ELSE IF detectIdle(ps[j], threshold, clock[j])
         THEN StatusLoop(ps, j + 1, nActive, nIdle + 1, threshold, clock)
         ELSE StatusLoop(ps, j + 1, nActive + 1, nIdle, threshold, clock)

\* statusShort with the two numbers in each other's place.
statusShort_SwapsCounts(ps, threshold, clock) ==
    LET n == StatusLoop(ps, 1, 0, 0, threshold, clock) IN StatusFormat(n.idle, n.active)

\* statusShort (tmux.go:144-154).
statusShort(ps, threshold, clock) ==
    LET n == StatusLoop(ps, 1, 0, 0, threshold, clock) IN StatusFormat(n.active, n.idle)

\* ------------------------------------------------------------ cmd.go
\* The comparison without the `!exists` case.
OutputChanged_IgnoresMissing(outs, id, output) ==
    id \in DOMAIN outs /\ outs[id] # output

\* cmd.go:668-669: !exists || prev != output
OutputChanged(outs, id, output) == id \notin DOMAIN outs \/ outs[id] # output

\* The record keeps the time stamp parsePaneList gave it.
WithTracking_None(p, last, output) == p

\* cmd.go:674-677: the pane record takes the tracked last-change time.
WithTracking(p, last, output) ==
    IF p.ID \in DOMAIN last
    THEN [p EXCEPT !.LastChangeAt = last[p.ID], !.LastOutput = output]
    ELSE p

\* ctx is cancelled only by the deferred cancel(), that is after the return.
ctxDone == FALSE

\* A failed listing returns from runWatch.
AfterListError_Return == "stopped"

\* Where the goroutine goes after listTmuxPanes failed (cmd.go:657-660).
AfterListError == "select"

\* `break` in place of `return`: leaves the select, not the loop.
AfterSignal_Break == "select"

\* Where the goroutine goes after the signal branch (cmd.go:686-688).
AfterSignal == "stopped"

\* Ticks handled without waiting for the tick in progress.
CanSelectTick_Concurrent == pc \in {"select", "scan"} /\ tickerC

\* Whether the select can take the ticker branch.
CanSelectTick == pc = "select" /\ tickerC

\* runWatch before its loop; no pure function is under study.
WatchInit(thresholds) ==
    /\ pc = "select"
    /\ idleThreshold \in thresholds
    /\ now = 0
    /\ tickerC = FALSE
    /\ sigCh = NoSig
    /\ sig = NoSig
    /\ panes = <<>>
    /\ i = 0
    /\ paneOutputs = <<>>
    /\ paneLastChange = <<>>
    /\ trace = <<>>
    /\ active = 0
    /\ allChanged = [p \in PaneIDs |-> TRUE]
    /\ missed = [p \in PaneIDs |-> FALSE]
    /\ captured = <<>>

Init ==
    /\ WatchInit(0..MaxThreshold)
    /\ pure = NoCall

\* The watch loop's variables, left alone while a pure function is applied.
watchVars == <<pc, idleThreshold, now, tickerC, sigCh, sig, panes, i, paneOutputs,
               paneLastChange, trace, active, allChanged, missed, captured>>

\* ------------------------------------------------------- the environment
\* The clock advances (while the process lives: main exits when runWatch
\* returns).
Advance ==
    /\ pc # "stopped"
    /\ now < MaxTime
    /\ now' = now + 1
    /\ UNCHANGED <<pure, captured, pc, idleThreshold, tickerC, sigCh, sig, panes, i, paneOutputs,
                   paneLastChange, trace, active, allChanged, missed>>

\* The ticker fires: a tick is buffered unless one is already waiting
\* (time.Ticker drops ticks for a slow receiver).  scanTicker.Stop() is
\* deferred, so nothing fires after the return.
TickerFire ==
    /\ pc # "stopped"
    /\ ~tickerC
    /\ tickerC' = TRUE
    /\ UNCHANGED <<pure, captured, pc, idleThreshold, now, sigCh, sig, panes, i, paneOutputs,
                   paneLastChange, trace, active, allChanged, missed>>

\* SIGINT or SIGTERM is delivered: signal.Notify sends without blocking into
\* the channel of capacity 1, so a signal is dropped when one is buffered.
Signal ==
    /\ pc # "stopped"
    /\ sigCh = NoSig
    /\ \E s \in Signals : sigCh' = s
    /\ UNCHANGED <<pure, captured, pc, idleThreshold, now, tickerC, sig, panes, i, paneOutputs,
                   paneLastChange, trace, active, allChanged, missed>>

\* --------------------------------------------------------------- runWatch
\* case <-scanTicker.C (cmd.go:655): the select receives the tick, which
\* empties the channel, and the goroutine calls listTmuxPanes; while tmux (and
\* ps) run, the clock, the ticker and signals go on.
SelectTick ==
    /\ CanSelectTick
    /\ tickerC' = FALSE
    /\ pc' = "list"
    /\ trace' = <<>>
    /\ active' = active + 1
    /\ UNCHANGED <<pure, captured, idleThreshold, now, sigCh, sig, panes, i, paneOutputs,
                   paneLastChange, allChanged, missed>>

\* The failed listing is skipped without the warning.
SelectTickListFails_Silent ==
    /\ pc = "list"
    /\ trace' = <<CallList(ListErr)>>
    /\ pc' = AfterListError
    /\ active' = active - 1
    /\ UNCHANGED <<pure, captured, idleThreshold, now, tickerC, sigCh, sig, panes, i,
                   paneOutputs, paneLastChange, allChanged, missed>>

\* listTmuxPanes returns an error (cmd.go:656-660): warn and continue.
SelectTickListFails ==
    /\ pc = "list"
    /\ trace' = <<CallList(ListErr), LogWarn>>
    /\ pc' = AfterListError
    /\ active' = active - 1
    /\ UNCHANGED <<pure, captured, idleThreshold, now, tickerC, sigCh, sig, panes, i,
                   paneOutputs, paneLastChange, allChanged, missed>>

\* listTmuxPanes returns ps (cmd.go:656, 662): enter the range loop, which
\* an empty slice ends at once.
SelectTickListOk ==
    /\ pc = "list"
    /\ \E ps \in PaneLists(now) :
        /\ trace' = <<CallList("ok")>>
        /\ missed' = [p \in PaneIDs |->
                        missed[p] \/ (p \in DOMAIN paneOutputs /\ p \notin IDsOf(ps))]
        /\ IF ps = <<>>
           THEN /\ pc' = "select"
                /\ active' = active - 1
                /\ UNCHANGED <<panes, i>>
           ELSE /\ pc' = "scan"
                /\ panes' = ps
                /\ i' = 1
                /\ UNCHANGED active
    /\ UNCHANGED <<pure, captured, idleThreshold, now, tickerC, sigCh, sig, paneOutputs,
                   paneLastChange, allChanged>>

\* The end of one iteration of `for i := range panes`, the slice now being
\* ps; the slice goes out of scope when the loop is left.
NextPane(ps) ==
    IF i = Len(panes)
    THEN pc' = "select" /\ panes' = <<>> /\ i' = 0 /\ active' = active - 1
    ELSE pc' = "scan" /\ panes' = ps /\ i' = i + 1 /\ UNCHANGED active

\* A failed capture leaves the range loop (`break` in place of `continue`).
CaptureFails_Break ==
    /\ pc = "scan"
    /\ trace' = Append(trace, CallCapture(panes[i].ID, CaptureErr))
    /\ pc' = "select" /\ panes' = <<>> /\ i' = 0 /\ active' = active - 1
    /\ UNCHANGED <<pure, captured, idleThreshold, now, tickerC, sigCh, sig, paneOutputs,
                   paneLastChange, allChanged, missed>>

\* One iteration whose capturePaneOutput fails: continue (cmd.go:663-666).
CaptureFails ==
    /\ pc = "scan"
    /\ trace' = Append(trace, CallCapture(panes[i].ID, CaptureErr))
    /\ NextPane(panes)
    /\ UNCHANGED <<pure, captured, idleThreshold, now, tickerC, sigCh, sig, paneOutputs,
                   paneLastChange, allChanged, missed>>

\* One iteration whose capturePaneOutput returns output (cmd.go:663-683); the
\* clock advances by d between time.Now() and detectIdle's time.Since().
ProcessPane ==
    /\ pc = "scan"
    /\ \E output \in Outputs, d \in 0..MaxStepDelay :
        LET id      == panes[i].ID
            changed == OutputChanged(paneOutputs, id, output)
            outs    == IF changed THEN (id :> output) @@ paneOutputs ELSE paneOutputs
            last    == IF changed THEN (id :> now) @@ paneLastChange ELSE paneLastChange
            p       == WithTracking(panes[i], last, output)
            idle    == detectIdle(p, idleThreshold, now + d)
        IN  /\ now + d <= MaxTime
            /\ now' = now + d
            /\ paneOutputs' = outs
            /\ paneLastChange' = last
            /\ trace' = trace \o <<CallCapture(id, output)>>
                              \o (IF idle THEN <<LogIdle(p)>> ELSE <<>>)
            /\ allChanged' = [allChanged EXCEPT ![id] = @ /\ changed]
            /\ missed' = [missed EXCEPT ![id] = FALSE]
            /\ captured' =
                 (id :> [out   |-> output,
                         since |-> IF id \in DOMAIN captured /\ captured[id].out = output
                                   THEN captured[id].since ELSE now]) @@ captured
            /\ NextPane([panes EXCEPT ![i] = p])
    /\ UNCHANGED <<pure, idleThreshold, tickerC, sigCh, sig>>

\* case sig := <-sigCh (or <-ctx.Done(), which never becomes ready while the
\* loop runs): log and return nil.
SelectStop ==
    /\ pc = "select"
    /\ sigCh # NoSig \/ ctxDone
    /\ IF sigCh # NoSig
       THEN /\ sig' = sigCh
            /\ sigCh' = NoSig
            /\ trace' = Append(trace, LogShutdown(sigCh))
       ELSE UNCHANGED <<sig, sigCh, trace>>
    /\ pc' = AfterSignal
    /\ UNCHANGED <<pure, captured, idleThreshold, now, tickerC, panes, i, paneOutputs,
                   paneLastChange, active, allChanged, missed>>

Next ==
    \/ Advance
    \/ TickerFire
    \/ Signal
    \/ SelectTick
    \/ SelectTickListFails
    \/ SelectTickListOk
    \/ CaptureFails
    \/ ProcessPane
    \/ SelectStop

Spec == Init /\ [][Next]_vars

\* The scheduling runWatch relies on: every external call of the tick in
\* progress returns (weak fairness of the loop iteration), and the select
\* picks among its ready cases at random, so a case that is ready again and
\* again is eventually taken (strong fairness of the signal branch).
LiveSpec ==
    /\ Init
    /\ [][Next]_vars
    /\ WF_vars(SelectTickListFails \/ SelectTickListOk \/ CaptureFails \/ ProcessPane)
    /\ SF_vars(SelectStop)

\* C9: a signal delivered while the loop runs leads to the loop having
\* returned (both return statements of the select return nil).
C9_SignalLeadsToStopped == (sigCh # NoSig) ~> (pc = "stopped")

\* ------------------------------------------- findTargetChild, in isolation
\* The columns of the header line of `ps -o pid,ppid,comm -e`.
PsHeader == << <<"P", "I", "D">>, <<"P", "P", "I", "D">>, <<"C", "O", "M", "M">> >>

\* The pid of the process on the k-th line below the header.
PidOfLine(k) == <<ToString(k + 1)>>

\* The pane's process, and a process outside the pane's subtree.
PanePID == <<"1">>
OutsidePID == <<"0">>

\* A line as ps prints it: every column after a blank, then a newline.
RECURSIVE PsLine(_)
PsLine(columns) ==
    IF columns = <<>> THEN <<NL>>
    ELSE <<Space>> \o Head(columns) \o PsLine(Tail(columns))

\* The output of ps for the lines procs.
RECURSIVE PsText(_)
PsText(procs) == IF procs = <<>> THEN <<>> ELSE PsLine(Head(procs)) \o PsText(Tail(procs))

\* What ps can say of the process on a line: its parent (0 a process
\* outside the pane's subtree, 1 the pane's process, j + 1 the process on line
\* j) and its command, the empty command standing for a line cut short after
\* the parent column.
ProcChoices(n) == (0..(n + 1)) \X {claude, node, binCodex, EmptyStr}

ParentPID(c) == IF c = 0 THEN OutsidePID ELSE IF c = 1 THEN PanePID ELSE PidOfLine(c - 1)

\* The columns of line k.
ProcLine(k, choice) ==
    IF choice[2] = EmptyStr THEN <<PidOfLine(k), ParentPID(choice[1])>>
    ELSE <<PidOfLine(k), ParentPID(choice[1]), choice[2]>>

\* From parent c the parent relation leads out of the listing.
RECURSIVE LeavesListing(_, _, _)
LeavesListing(f, c, fuel) ==
    IF c <= 1 THEN TRUE
    ELSE IF fuel = 0 THEN FALSE
    ELSE LeavesListing(f, f[c - 1][1], fuel - 1)

\* What ps prints is a forest: no process is its own ancestor.
IsForest(f) ==
    /\ \A k \in DOMAIN f : f[k][1] # k + 1 /\ (f[k][2] = EmptyStr => f[k][1] = 1)
    /\ \A k \in DOMAIN f : LeavesListing(f, f[k][1], Len(f))

\* The header and the lines of the processes.
Procs(f) == <<PsHeader>> \o [k \in DOMAIN f |-> ProcLine(k, f[k])]

CallIsTargetCommand(cmd) ==
    [fn |-> "isTargetCommand", cmd |-> cmd, done |-> FALSE, out |-> FALSE]

\* procs is what ps listed, psOutput the text it printed.
CallFindTargetChild(procs, panePID) ==
    [fn |-> "findTargetChild", procs |-> procs, psOutput |-> PsText(procs),
     panePID |-> panePID, done |-> FALSE, out |-> EmptyStr]

TreeInit ==
    /\ WatchInit({0})
    /\ \/ \E cmd \in SampleCommands : pure = CallIsTargetCommand(cmd)
       \/ pure = CallFindTargetChild(<<>>, PanePID)
       \/ \E n \in 0..MaxProcs : \E f \in [1..n -> ProcChoices(n)] :
             /\ IsForest(f)
             /\ pure = CallFindTargetChild(Procs(f), PanePID)

ApplyIsTargetCommand ==
    /\ pure.fn = "isTargetCommand"
    /\ ~pure.done
    /\ pure' = [pure EXCEPT !.done = TRUE, !.out = isTargetCommand(pure.cmd)]
    /\ UNCHANGED watchVars

ApplyFindTargetChild ==
    /\ pure.fn = "findTargetChild"
    /\ ~pure.done
    /\ pure' = [pure EXCEPT !.done = TRUE,
                            !.out = findTargetChild(pure.psOutput, pure.panePID)]
    /\ UNCHANGED watchVars

TreeNext == ApplyIsTargetCommand \/ ApplyFindTargetChild

TreeSpec == TreeInit /\ [][TreeNext]_vars

\* --------------------------------------------- parsePaneList, in isolation
\* The pane id and the pid of the pane's process on row k of a listing: the
\* first two panes run the process above the listed ones and the process
\* outside, the later ones a listed process.
PaneID(k) == <<"%", ToString(k)>>
PanePidOfRow(k) ==
    IF k = 1 THEN PanePID ELSE IF k = 2 THEN OutsidePID ELSE PidOfLine(k - 2)
PaneDir == <<Slash, "w">>

\* What tmux can print for a pane: its command and how many columns of the
\* row arrive (2: cut after the command; none: an empty line).
RowChoices ==
    ({claude, node, binCodex} \X {3, 4}) \cup {<<claude, 2>>, <<EmptyStr, 0>>}

\* The columns of row k.
PaneRow(k, choice) ==
    SubSeq(<<PaneID(k), choice[1], PanePidOfRow(k), PaneDir>>, 1, choice[2])

PaneRows(f) == [k \in DOMAIN f |-> PaneRow(k, f[k])]

\* A row as tmux prints it (format of tmux.go:158): the columns with tabs
\* between them, then a newline.
RECURSIVE JoinTabs(_)
JoinTabs(columns) ==
    IF columns = <<>> THEN <<>>
    ELSE IF Len(columns) = 1 THEN columns[1]
    ELSE Head(columns) \o <<Tab>> \o JoinTabs(Tail(columns))

RECURSIVE TmuxText(_)
TmuxText(rows) ==
    IF rows = <<>> THEN <<>>
    ELSE JoinTabs(Head(rows)) \o <<NL>> \o TmuxText(Tail(rows))

\* The readings of time.Now() during one call: the first is t0, d passes
\* between one and the next.
ClockFrom(t0, d) == [n \in 1..MaxPaneRows |-> t0 + (n - 1) * d]

\* rows is what tmux listed, output the text it printed; childLookupFn a
\* stub as in TestParsePaneListWithChildProcess.
CallParsePaneList(rows, childLookupFn, clock) ==
    [fn |-> "parsePaneList", rows |-> rows, output |-> TmuxText(rows),
     childLookupFn |-> childLookupFn, clock |-> clock,
     done |-> FALSE, out |-> <<>>, calls |-> <<>>]

PaneInit ==
    /\ WatchInit({0})
    /\ \E n \in 0..MaxPaneRows : \E f \in [1..n -> RowChoices] :
       \E stub \in [{ PanePidOfRow(k) : k \in 1..n } -> {EmptyStr, codex, zsh}] :
       \E t0 \in 0..MaxTime : \E d \in 0..MaxStepDelay :
           pure = CallParsePaneList(PaneRows(f), stub, ClockFrom(t0, d))

ApplyParsePaneList ==
    /\ pure.fn = "parsePaneList"
    /\ ~pure.done
    /\ LET r == parsePaneList(pure.output, pure.childLookupFn, pure.clock) IN
       pure' = [pure EXCEPT !.done = TRUE, !.out = r.panes, !.calls = r.calls]
    /\ UNCHANGED watchVars

PaneSpec == PaneInit /\ [][ApplyParsePaneList]_vars

\* ------------------------- parsePaneList with lookupChildProcess behind it
\* procs is the process table, ps what running the ps command gives: its
\* text, with or without an error.
CallParsePaneListWithPs(rows, procs, ok) ==
    [fn |-> "parsePaneList+ps", rows |-> rows, output |-> TmuxText(rows),
     procs |-> procs,
     ps |-> IF ok THEN PsPrinted(PsText(procs)) ELSE PsFailed(PsText(procs)),
     done |-> FALSE, out |-> <<>>]

\* A pane listing of one row fewer, and a process table of one process
\* fewer, than the specifications above use on their own.
LookupInit ==
    /\ WatchInit({0})
    /\ \E n \in 0..(MaxPaneRows - 1) : \E f \in [1..n -> RowChoices] :
       \E m \in 0..(MaxProcs - 1) : \E g \in [1..m -> ProcChoices(m)] :
       \E ok \in BOOLEAN :
           /\ IsForest(g)
           /\ pure = CallParsePaneListWithPs(PaneRows(f), Procs(g), ok)

\* childLookupFn is lookupChildProcess (tmux.go:99), which runs ps anew for
\* every pid it is asked about.
ApplyParsePaneListWithPs ==
    /\ pure.fn = "parsePaneList+ps"
    /\ ~pure.done
    /\ LET childLookupFn == [pid \in { pure.rows[k][3] : k \in { j \in DOMAIN pure.rows :
                                           Len(pure.rows[j]) >= 3 } }
                               |-> lookupChildProcess(pure.ps, pid)]
           r == parsePaneList(pure.output, childLookupFn, ClockFrom(0, 0))
       IN  pure' = [pure EXCEPT !.done = TRUE, !.out = r.panes]
    /\ UNCHANGED watchVars

LookupSpec == LookupInit /\ [][ApplyParsePaneListWithPs]_vars

\* ------------------------------------- detectIdle and statusShort, in isolation
\* A pane found at time t.
PaneSince(j, t) == paneInfo(PaneID(j), claude, PanePidOfRow(j), PaneDir, t)

CallDetectIdle(p, threshold, clock) ==
    [fn |-> "detectIdle", p |-> p, threshold |-> threshold, clock |-> clock,
     done |-> FALSE, out |-> FALSE]

CallStatusShort(ps, threshold, clock) ==
    [fn |-> "statusShort", panes |-> ps, threshold |-> threshold, clock |-> clock,
     done |-> FALSE, out |-> EmptyStr]

\* The clock does not run backwards: a pane is looked at no earlier than its
\* LastChangeAt, and no earlier than the pane before it.
IdleInit ==
    /\ WatchInit({0})
    /\ \/ \E t \in 0..MaxTime : \E clock \in t..MaxTime : \E th \in 0..MaxThreshold :
             pure = CallDetectIdle(PaneSince(1, t), th, clock)
       \/ \E n \in 0..MaxPaneRows : \E since \in [1..n -> 0..MaxTime] :
          \E t0 \in 0..MaxTime : \E d \in 0..MaxStepDelay : \E th \in 0..MaxThreshold :
             /\ \A j \in 1..n : since[j] <= t0
             /\ pure = CallStatusShort([j \in 1..n |-> PaneSince(j, since[j])], th,
                                       ClockFrom(t0, d))

ApplyDetectIdle ==
    /\ pure.fn = "detectIdle"
    /\ ~pure.done
    /\ pure' = [pure EXCEPT !.done = TRUE,
                            !.out = detectIdle(pure.p, pure.threshold, pure.clock)]
    /\ UNCHANGED watchVars

ApplyStatusShort ==
    /\ pure.fn = "statusShort"
    /\ ~pure.done
    /\ pure' = [pure EXCEPT !.done = TRUE,
                            !.out = statusShort(pure.panes, pure.threshold, pure.clock)]
    /\ UNCHANGED watchVars

IdleNext == ApplyDetectIdle \/ ApplyStatusShort

IdleSpec == IdleInit /\ [][IdleNext]_vars

\* ------------------------------------------------------ reading a step
\* The step is a loop iteration for pane id whose capture returned r.
Captured(id, r) ==
    /\ pc = "scan"
    /\ panes[i].ID = id
    /\ Len(trace') > Len(trace)
    /\ trace'[Len(trace) + 1] = CallCapture(id, r)

\* The step is the return of listTmuxPanes with r ("ok" or ListErr).
Listed(r) ==
    /\ pc = "list"
    /\ trace' # <<>>
    /\ trace'[1] = CallList(r)

\* The step is the select receiving a tick.
TickStarts == tickerC /\ ~tickerC'

\* The step ends a tick that entered the range loop.
TickEnds == pc = "scan" /\ pc' # "scan"

\* ------------------------------------------------------------------ C1
\* C1: when a capture succeeds, a pane without snapshot or with a different
\* snapshot gets the captured output as snapshot and the clock reading of
\* cmd.go:671 as last-change time (nothing else in the maps changes); a pane
\* whose output equals its snapshot leaves both maps as they were.
C1_UpdateOnChange ==
    [][\A id \in PaneIDs, out \in Outputs :
        Captured(id, out) =>
            IF id \notin DOMAIN paneOutputs \/ paneOutputs[id] # out
            THEN /\ paneOutputs' = (id :> out) @@ paneOutputs
                 /\ paneLastChange' = (id :> now) @@ paneLastChange
            ELSE /\ paneOutputs' = paneOutputs
                 /\ paneLastChange' = paneLastChange]_vars

\* Both cases have happened for one pane: it has a snapshot, its last capture
\* of this tick returned that snapshot, and some capture left it unchanged.
C1_Witness ==
    \E id \in DOMAIN paneOutputs :
        /\ ~allChanged[id]
        /\ \E k \in DOMAIN trace : trace[k] = CallCapture(id, paneOutputs[id])
        /\ paneLastChange[id] < now

\* ------------------------------------------------------------------ C2
\* C2: a loop iteration whose capture succeeds emits exactly one idle line
\* for its pane when the clock read by detectIdle minus the pane's stored
\* last-change time (after the update) is at least idleThreshold, and none
\* otherwise; no idle line for that pane was emitted earlier on the tick.
C2_LevelTriggered ==
    [][\A id \in PaneIDs, out \in Outputs :
        Captured(id, out) =>
            /\ IdleLines(trace, id) = 0
            /\ id \in DOMAIN paneLastChange'
            /\ IdleLines(trace', id) =
                 (IF now' - paneLastChange'[id] >= idleThreshold THEN 1 ELSE 0)]_vars

\* A pane was processed on this tick with a last-change time older than the
\* tick (older than the build time of the records not yet processed), so its
\* output was identical; more than the threshold has elapsed; one idle line.
C2_Witness ==
    /\ pc = "scan"
    /\ i = 2
    /\ idleThreshold > 0
    /\ panes[1].LastChangeAt < panes[2].LastChangeAt
    /\ now - panes[1].LastChangeAt > idleThreshold
    /\ IdleLines(trace, panes[1].ID) = 1

\* ------------------------------------------------------------------ C3
\* C3 as stated: a pane all of whose captures changed the snapshot has no
\* idle line.
C3_NeverIdleWhenChanging ==
    \A id \in PaneIDs : allChanged[id] => IdleLines(trace, id) = 0

\* C3 amended: a pane all of whose captures changed the snapshot gets an idle
\* line only on an iteration during which the clock advanced by at least
\* idleThreshold between the update (cmd.go:671) and detectIdle (tmux.go:140).
C3_IdleOnlyByStepDelay ==
    [][\A id \in PaneIDs, out \in Outputs :
        (Captured(id, out) /\ allChanged'[id] /\ IdleLines(trace', id) > 0)
            => now' - now >= idleThreshold]_vars

\* A pane that changed on every capture, seen on at least two ticks, with a
\* positive threshold and no idle line.
C3_Witness ==
    \E id \in DOMAIN paneOutputs :
        /\ allChanged[id]
        /\ idleThreshold > 0
        /\ paneLastChange[id] > 0
        /\ \E k \in DOMAIN trace : trace[k] = CallCapture(id, paneOutputs[id])
        /\ IdleLines(trace, id) = 0

\* ------------------------------------------------------------------ C4
\* C4 as stated: a pane that has a snapshot, was absent from a listing and is
\* captured again has its last-change time set to the clock of that capture.
C4_FreshClockOnReappear ==
    [][\A id \in PaneIDs, out \in Outputs :
        (Captured(id, out) /\ missed[id])
            => (id \in DOMAIN paneLastChange' /\ paneLastChange'[id] = now)]_vars

\* ------------------------------------------------------------------ C5
\* C5: an iteration whose capture fails changes neither map and emits no
\* idle line for its pane, the loop goes on with the next pane (or back to
\* the select after the last one), and a tick that entered the loop ends with
\* one capture requested for every listed pane, in listing order.
C5_CaptureFailureIsLocal ==
    [][/\ \A id \in PaneIDs :
            Captured(id, CaptureErr) =>
                /\ paneOutputs' = paneOutputs
                /\ paneLastChange' = paneLastChange
                /\ IdleLines(trace', id) = 0
                /\ IF i < Len(panes)
                   THEN pc' = "scan" /\ i' = i + 1 /\ panes' = panes
                   ELSE pc' = "select"
       /\ TickEnds => CapturedIDs(trace') = [k \in DOMAIN panes |-> panes[k].ID]]_vars

\* The first listed pane's capture failed and a later pane of the same tick
\* was captured with success and classified idle.
C5_Witness ==
    /\ Len(trace) >= 4
    /\ IsCapture(trace[2]) /\ trace[2][4] = CaptureErr
    /\ IsCapture(trace[3]) /\ trace[3][4] \in Outputs
    /\ IsIdleLine(trace[4], trace[3][3])
    /\ pc = "select"

\* ------------------------------------------------------------------ C6
\* C6: a tick whose listing fails emits the warning and nothing else (no
\* capture call, no idle line), leaves both maps as they were and returns to
\* the select.
C6_ListFailureSkipsTick ==
    [][Listed(ListErr) =>
        /\ trace' = <<CallList(ListErr), LogWarn>>
        /\ paneOutputs' = paneOutputs
        /\ paneLastChange' = paneLastChange
        /\ pc' = "select"
        /\ panes' = <<>>]_vars

\* A listing failed on a tick after snapshots were stored, and the loop waits
\* in the select with the next tick already available.
C6_Witness ==
    /\ trace = <<CallList(ListErr), LogWarn>>
    /\ DOMAIN paneOutputs = PaneIDs
    /\ pc = "select"
    /\ tickerC

\* ------------------------------------------------------------------ C7
\* C7: the loop stops only by a step taken from the select that receives a
\* buffered signal (or with the context cancelled); in particular no step
\* that follows a failed listing or a failed capture stops it.
C7_StopsOnlyOnCancellation ==
    [][(pc # "stopped" /\ pc' = "stopped") =>
        /\ pc = "select"
        /\ \/ (sigCh \in Signals /\ sig' = sigCh)
           \/ ctxDone]_vars

\* The loop went through a failed listing and then stopped on a signal.
C7_Witness ==
    /\ pc = "stopped"
    /\ sig \in Signals
    /\ Len(trace) = 3
    /\ trace[2] = LogWarn

\* ------------------------------------------------------------------ C8
\* C8: once the signal branch has received a signal, no step changes
\* anything: no listing, no capture, no map update, no log line.
C8_NothingAfterStop ==
    [][sig # NoSig => UNCHANGED vars]_vars

\* The loop has stopped with a tick still waiting in the ticker channel.
C8_Witness ==
    /\ sig \in Signals
    /\ pc = "stopped"
    /\ tickerC

\* ------------------------------------------------------------------ C10
\* C10: at most one tick body is being executed; a tick starts only from the
\* select with no tick in progress; the ticker firing during a tick only
\* buffers the tick and leaves the tick in progress as it is.
C10_TicksDoNotOverlap ==
    [][/\ active' <= 1
       /\ TickStarts => (pc = "select" /\ active = 0)
       /\ (Listed("ok") \/ Listed(ListErr)) => active = 1
       /\ (pc \in {"list", "scan"} /\ ~tickerC /\ tickerC')
            => UNCHANGED <<pc, panes, i, paneOutputs, paneLastChange, trace, active>>]_vars

\* The ticker fired while the second pane of a tick was still to be processed.
C10_Witness ==
    /\ pc = "scan"
    /\ i = 2
    /\ active = 1
    /\ tickerC

\* ------------------------------------------------------------------ C9
\* The loop has returned after a signal that found the ticker ready as well.
C9_Witness ==
    /\ pc = "stopped"
    /\ sig \in Signals
    /\ tickerC
    /\ Len(trace) > 2

TypeOK ==
    /\ pc \in {"select", "list", "scan", "stopped"}
    /\ now \in 0..MaxTime
    /\ DOMAIN paneOutputs = DOMAIN paneLastChange
    /\ active \in 0..1
\* ------------------------------------------------- reading a listing
\* The final path segment of s: the suffix without "/" that starts s or
\* follows a "/".
LastSegment(s) ==
    CHOOSE seg \in { SubSeq(s, k + 1, Len(s)) : k \in 0..Len(s) } :
        /\ \A j \in DOMAIN seg : seg[j] # Slash
        /\ Len(seg) = Len(s) \/ s[Len(s) - Len(seg)] = Slash

IsTargetName(s) == LastSegment(s) \in {claude, codex}

\* The lines of a listing that describe a process.
ProcLines(lines) == { k \in DOMAIN lines : Len(lines[k]) >= 3 }

\* The lines whose process is a child of one of the processes on lines S.
ChildLines(lines, S) ==
    { k \in ProcLines(lines) : \E j \in S : lines[k][2] = lines[j][1] }

RECURSIVE Closure(_, _)
Closure(lines, S) ==
    LET T == S \cup ChildLines(lines, S) IN
    IF T = S THEN S ELSE Closure(lines, T)

\* The lines of the processes below pid, and of those at or below line k.
Descendants(lines, pid) ==
    Closure(lines, { k \in ProcLines(lines) : lines[k][2] = pid })
Subtree(lines, k) == Closure(lines, {k})

\* The lines below pid in depth-first pre-order, siblings in listing order,
\* from line k of the listing on.
RECURSIVE Preorder(_, _, _, _)
Preorder(lines, pid, k, fuel) ==
    IF k > Len(lines) \/ fuel = 0 THEN <<>>
    ELSE IF k \in ProcLines(lines) /\ lines[k][2] = pid
         THEN <<k>> \o Preorder(lines, lines[k][1], 1, fuel - 1)
                    \o Preorder(lines, pid, k + 1, fuel)
         ELSE Preorder(lines, pid, k + 1, fuel)

\* The targets below pid, in that order.
TargetsInPreorder(lines, pid) ==
    SelectSeq(Preorder(lines, pid, 1, Len(lines) + 1),
              LAMBDA k : IsTargetName(lines[k][3]))

FoundChild == pure.fn = "findTargetChild" /\ pure.done

\* ------------------------------------------------------------------ C15
\* C15: findTargetChild returns the name of the first target process in
\* depth-first pre-order below the root, siblings in listing order (each
\* child is tested, then its whole subtree searched, before the next
\* sibling), and nothing when there is no target below the root.
C15_FirstInPreorder ==
    FoundChild =>
        LET targets == TargetsInPreorder(pure.procs, pure.panePID) IN
        pure.out = IF targets = <<>> THEN EmptyStr
                   ELSE LastSegment(pure.procs[targets[1]][3])

\* A claude below an earlier-listed node wins over a later-listed sibling of
\* that node which is itself a target.
C15_Witness ==
    /\ FoundChild
    /\ pure.out = claude
    /\ \E a, b, c \in ProcLines(pure.procs) :
          /\ a < b
          /\ pure.procs[a][2] = pure.panePID /\ pure.procs[a][3] = node
          /\ pure.procs[b][2] = pure.panePID /\ pure.procs[b][3] = binCodex
          /\ pure.procs[c][2] = pure.procs[a][1] /\ pure.procs[c][3] = claude

\* ------------------------------------------------------------------ C16
\* Lines k and k+1 of a listing exchanged.
SwapLines(lines, k) ==
    [j \in DOMAIN lines |-> IF j = k THEN lines[k + 1]
                            ELSE IF j = k + 1 THEN lines[k] ELSE lines[j]]

\* Line k belongs to a subtree without a target: no process at or below it
\* is one.
InTargetlessSubtree(lines, k) ==
    /\ k \in ProcLines(lines)
    /\ \A j \in Subtree(lines, k) : ~IsTargetName(lines[j][3])

\* C16: moving the lines of subtrees that contain no target leaves the
\* result of findTargetChild as it is.  Every permutation that keeps the
\* other lines in their relative order is a chain of exchanges of two
\* neighbouring lines of which one belongs to such a subtree, and an exchange
\* does not change which lines belong to one; so the property is stated for
\* one exchange, from every listing.
C16_TargetlessSubtreesCommute ==
    FoundChild =>
        \A k \in 1..(Len(pure.procs) - 1) :
            (InTargetlessSubtree(pure.procs, k)
                 \/ InTargetlessSubtree(pure.procs, k + 1))
            => findTargetChild(PsText(SwapLines(pure.procs, k)), pure.panePID) = pure.out

\* A node without descendants listed just before its sibling claude.
C16_Witness ==
    /\ FoundChild
    /\ pure.out = claude
    /\ \E k \in 1..(Len(pure.procs) - 1) :
          /\ InTargetlessSubtree(pure.procs, k)
          /\ pure.procs[k][2] = pure.panePID /\ pure.procs[k][3] = node
          /\ k + 1 \in ProcLines(pure.procs)
          /\ pure.procs[k + 1][2] = pure.panePID
          /\ pure.procs[k + 1][3] = claude

\* ------------------------------------------------------------------ C17
\* C17: for a root with a process named node below it, findTargetChild
\* returns nothing when no process below the root is a target, and claude or
\* codex when a target is below that node at any depth; an empty listing and
\* a root without children give nothing.
C17_NodeNeedsTargetDescendant ==
    FoundChild =>
        LET lines == pure.procs
            below == Descendants(lines, pure.panePID)
        IN  /\ \A n \in below :
                  lines[n][3] = node =>
                      /\ (\A k \in below : ~IsTargetName(lines[k][3]))
                             => pure.out = EmptyStr
                      /\ (\E k \in Subtree(lines, n) : IsTargetName(lines[k][3]))
                             => pure.out \in {claude, codex}
            /\ (lines = <<>> \/ below = {}) => pure.out = EmptyStr

\* A claude that is a grandchild of a node process is found.
C17_Witness ==
    /\ FoundChild
    /\ pure.out = claude
    /\ \E n, m, k \in ProcLines(pure.procs) :
          /\ pure.procs[n][2] = pure.panePID /\ pure.procs[n][3] = node
          /\ pure.procs[m][2] = pure.procs[n][1] /\ pure.procs[m][3] = node
          /\ pure.procs[k][2] = pure.procs[m][1] /\ pure.procs[k][3] = claude
    /\ \A k \in ProcLines(pure.procs) :
          pure.procs[k][2] = pure.panePID => pure.procs[k][3] = node

\* ------------------------------------------------------------------ C18
\* C18: isTargetCommand(cmd) holds exactly when the final path segment of
\* cmd is claude or codex, letter for letter; node, Claude, claude-code and
\* codex2 are not targets; and the name findTargetChild returns is the final
\* segment of the command of a listed target, without its path.
C18_ExactFinalSegment ==
    /\ (pure.fn = "isTargetCommand" /\ pure.done) =>
          /\ pure.out <=> (LastSegment(pure.cmd) = claude \/ LastSegment(pure.cmd) = codex)
          /\ pure.cmd \in {node, Claude, claudeCode, codex2} => ~pure.out
    /\ (FoundChild /\ pure.out # EmptyStr) =>
          /\ \A j \in DOMAIN pure.out : pure.out[j] # Slash
          /\ \E k \in Descendants(pure.procs, pure.panePID) :
                /\ IsTargetName(pure.procs[k][3])
                /\ pure.out = LastSegment(pure.procs[k][3])

\* A command with a path in front of codex is a target, and found under the
\* name codex.
C18_Witness ==
    \/ /\ pure.fn = "isTargetCommand" /\ pure.done
       /\ pure.cmd = binCodex /\ pure.out = TRUE
    \/ /\ FoundChild /\ pure.out = codex
       /\ \A k \in Descendants(pure.procs, pure.panePID) :
             pure.procs[k][3] # claude /\ pure.procs[k][3] # codex

\* -------------------------------------------------- reading a pane list
ParsedPanes == pure.fn = "parsePaneList" /\ pure.done

\* The rows of a listing that describe a pane: id, command and pid arrived.
FullRows(rows) == { k \in DOMAIN rows : Len(rows[k]) >= 3 }

\* Id, command and pid of the returned records.
Shown(ps) == [j \in DOMAIN ps |-> <<ps[j].ID, ps[j].Command, ps[j].PID>>]

\* What the rows from k on resolve to, lookup[pid] being the name the
\* lookup function gives for pid.
RECURSIVE Resolvable(_, _, _)
Resolvable(rows, k, lookup) ==
    IF k > Len(rows) THEN <<>>
    ELSE LET row == rows[k] IN
         IF k \notin FullRows(rows) THEN Resolvable(rows, k + 1, lookup)
         ELSE IF IsTargetName(row[2])
              THEN <<<<row[1], row[2], row[3]>>>> \o Resolvable(rows, k + 1, lookup)
         ELSE IF lookup[row[3]] # EmptyStr
              THEN <<<<row[1], lookup[row[3]], row[3]>>>> \o Resolvable(rows, k + 1, lookup)
         ELSE Resolvable(rows, k + 1, lookup)

\* ------------------------------------------------------------------ C12
\* C12: parsePaneList returns the rows that resolve by either path, in row
\* order: a row with a target command under that command, a row with another
\* command under the non-empty name the lookup returns, and no row for which
\* the lookup returns nothing.
C12_ResolvableRowsInOrder ==
    ParsedPanes => Shown(pure.out) = Resolvable(pure.rows, 1, pure.childLookupFn)

\* The listing of TestParsePaneListWithChildProcess: a claude row, then a
\* node row whose pid the lookup maps to codex.
C12_Witness ==
    /\ ParsedPanes
    /\ Len(pure.rows) = 2
    /\ FullRows(pure.rows) = {1, 2}
    /\ pure.rows[1][2] = claude
    /\ pure.rows[2][2] = node
    /\ pure.childLookupFn[pure.rows[2][3]] = codex
    /\ Shown(pure.out) = << <<PaneID(1), claude, PanePidOfRow(1)>>,
                            <<PaneID(2), codex, PanePidOfRow(2)>> >>

\* ------------------------------------------------------------------ C13
\* The pids of the full rows from k on whose command is not a target.
RECURSIVE NeedLookup(_, _)
NeedLookup(rows, k) ==
    IF k > Len(rows) THEN <<>>
    ELSE IF k \in FullRows(rows) /\ ~IsTargetName(rows[k][2])
         THEN <<rows[k][3]>> \o NeedLookup(rows, k + 1)
         ELSE NeedLookup(rows, k + 1)

\* C13: during one call of parsePaneList the lookup function is called once
\* for each row of at least 3 fields whose command is not a target, with
\* that row's pid, and not for a row whose command is a target.
C13_OneLookupPerFallbackRow ==
    ParsedPanes => pure.calls = NeedLookup(pure.rows, 1)

\* A row with a target command and a node row: one call, for the node row.
C13_Witness ==
    /\ ParsedPanes
    /\ FullRows(pure.rows) = {1, 2}
    /\ pure.rows[1][2] = binCodex
    /\ pure.rows[2][2] = node
    /\ pure.calls = <<PanePidOfRow(2)>>

\* ------------------------------------------------------------------ C14
\* C14: every record parsePaneList returns carries as LastChangeAt a reading
\* of the clock taken during that call, when the record was built: never a
\* time from before the call.
C14_StampedDuringCall ==
    ParsedPanes =>
        \A j \in DOMAIN pure.out :
            /\ pure.out[j].LastChangeAt = pure.clock[j]
            /\ pure.out[j].LastChangeAt >= pure.clock[1]
            /\ pure.out[j].LastChangeAt <= pure.clock[Len(pure.out)]

\* Two records built at the clock readings 1 and 2.
C14_Witness ==
    /\ ParsedPanes
    /\ Len(pure.out) = 2
    /\ pure.out[1].LastChangeAt = 1
    /\ pure.out[2].LastChangeAt = 2

\* ------------------------------------------------------------------ C11
ParsedPanesWithPs == pure.fn = "parsePaneList+ps" /\ pure.done

\* Some process below pid in the process table is a target.
HasTargetBelow(procs, pid) ==
    \E k \in Descendants(procs, pid) : IsTargetName(procs[k][3])

\* The pane of row k is in the result.
Appears(k) == \E j \in DOMAIN pure.out : pure.out[j].ID = pure.rows[k][1]

\* C11 as stated: a pane appears in the result of parsePaneList if and only
\* if its command is a target or some descendant of its process is one.
C11_AppearsIffTargetReachable ==
    ParsedPanesWithPs =>
        \A k \in FullRows(pure.rows) :
            Appears(k) <=> \/ IsTargetName(pure.rows[k][2])
                           \/ HasTargetBelow(pure.procs, pure.rows[k][3])

\* C11, amended: a pane (a row of at least 3 fields) appears in the result
\* if and only if its command is a target, or the enumeration of the process
\* table succeeds and some descendant of its process is a target.
C11_AppearsIffTargetFound ==
    ParsedPanesWithPs =>
        \A k \in FullRows(pure.rows) :
            Appears(k) <=> \/ IsTargetName(pure.rows[k][2])
                           \/ /\ ~pure.ps.err
                              /\ HasTargetBelow(pure.procs, pure.rows[k][3])

\* A node pane with a claude grandchild, found through ps.
C11_Witness ==
    /\ ParsedPanesWithPs
    /\ ~pure.ps.err
    /\ 1 \in FullRows(pure.rows)
    /\ pure.rows[1][2] = node
    /\ \E a, b \in ProcLines(pure.procs) :
          /\ pure.procs[a][2] = pure.rows[1][3] /\ pure.procs[a][3] = node
          /\ pure.procs[b][2] = pure.procs[a][1] /\ pure.procs[b][3] = claude
    /\ Appears(1)

\* ------------------------------------------------------------------ C19
\* C19: detectIdle(pane, threshold) is true if and only if the time since
\* pane.LastChangeAt is at least threshold: true when it equals threshold,
\* false whenever it is less.
C19_IdleIffElapsedAtLeastThreshold ==
    (pure.fn = "detectIdle" /\ pure.done) =>
        LET elapsed == pure.clock - pure.p.LastChangeAt IN
        /\ pure.out <=> elapsed >= pure.threshold
        /\ elapsed = pure.threshold => pure.out
        /\ elapsed < pure.threshold => ~pure.out

\* Idle with exactly the threshold elapsed, the threshold not being zero.
C19_Witness ==
    /\ pure.fn = "detectIdle" /\ pure.done
    /\ pure.threshold > 0
    /\ pure.clock - pure.p.LastChangeAt = pure.threshold
    /\ pure.out = TRUE

\* ------------------------------------------------------------------ C20
\* The panes for which the time since LastChangeAt, at the moment statusShort
\* looks at them, is at least the threshold.
IdleOnes ==
    { j \in DOMAIN pure.panes :
          pure.clock[j] - pure.panes[j].LastChangeAt >= pure.threshold }

\* C20: statusShort reports as idle the number of panes for which detectIdle
\* is true and as active the number for which it is false, in the format
\* "tmux-agent: <active> active, <idle> idle"; the two add up to the number
\* of panes.
C20_CountsFollowDetectIdle ==
    (pure.fn = "statusShort" /\ pure.done) =>
        LET nIdle   == Cardinality(IdleOnes)
            nActive == Cardinality(DOMAIN pure.panes \ IdleOnes)
        IN  /\ pure.out = StatusFormat(nActive, nIdle)
            /\ nActive + nIdle = Len(pure.panes)

\* One pane idle and one active.
C20_Witness ==
    /\ pure.fn = "statusShort" /\ pure.done
    /\ Len(pure.panes) = 2
    /\ Cardinality(IdleOnes) = 1
    /\ pure.out = StatusFormat(1, 1)

\* ------------------------------------------------------------------ C27
\* C27: in every state of the watch loop the pane IDs with a snapshot are
\* the pane IDs with a last-change time; and an iteration whose capture
\* succeeds classifies its pane by the stored last-change time: the idle line
\* appears exactly when the clock minus that time reaches idleThreshold, and
\* the pane record carries that time, not the time parsePaneList gave it.
C27_StoredTimeClassifies ==
    /\ [](DOMAIN paneOutputs = DOMAIN paneLastChange)
    /\ [][\A id \in PaneIDs, out \in Outputs :
            Captured(id, out) =>
                /\ id \in DOMAIN paneOutputs' /\ id \in DOMAIN paneLastChange'
                /\ IdleLines(trace', id) - IdleLines(trace, id) =
                     (IF now' - paneLastChange'[id] >= idleThreshold THEN 1 ELSE 0)
                /\ pc' = "scan" => panes'[i].LastChangeAt = paneLastChange'[id]]_vars

\* The first pane of the tick is classified by a stored time older than the
\* time its record was built, which the second pane's record still shows.
C27_Witness ==
    /\ pc = "scan"
    /\ i = 2
    /\ DOMAIN paneOutputs = DOMAIN paneLastChange
    /\ panes[1].ID \in DOMAIN paneLastChange
    /\ panes[1].LastChangeAt = paneLastChange[panes[1].ID]
    /\ panes[1].LastChangeAt < panes[2].LastChangeAt
    /\ idleThreshold > 0
    /\ now - panes[2].LastChangeAt < idleThreshold
    /\ IdleLines(trace, panes[1].ID) = 1

\* ------------------------------------------------------------------ C28
\* C28: in every state of the watch loop the panes with a snapshot are those
\* captured successfully in this run; the snapshot is the output of the
\* latest such capture, and the last-change time is the time of the first of
\* the captures since which all have returned that output; the stored
\* last-change time of a pane never decreases.
C28_SnapshotIsLatestCapture ==
    /\ [](/\ DOMAIN paneOutputs = DOMAIN captured
          /\ \A id \in DOMAIN captured :
                /\ paneOutputs[id] = captured[id].out
                /\ paneLastChange[id] = captured[id].since)
    /\ [][\A id \in DOMAIN paneLastChange :
            /\ id \in DOMAIN paneLastChange'
            /\ paneLastChange'[id] >= paneLastChange[id]]_vars

\* A pane whose output changed after its first capture and then stayed the
\* same for a later capture.
C28_Witness ==
    \E id \in DOMAIN captured :
        /\ captured[id].since > 0
        /\ captured[id].since < now
        /\ ~allChanged[id]
        /\ paneLastChange[id] = captured[id].since
        /\ \E k \in DOMAIN trace : trace[k] = CallCapture(id, captured[id].out)

\* ------------------------------------------------------------------ C30
\* C30 as stated: with idleThreshold above zero, an iteration that sets the
\* pane's last-change time to now (no snapshot yet, or another output)
\* emits no idle line for the pane.
C30_NotIdleWhenJustChanged ==
    [][\A id \in PaneIDs, out \in Outputs :
        (/\ Captured(id, out)
         /\ id \notin DOMAIN paneOutputs \/ paneOutputs[id] # out
         /\ idleThreshold > 0)
            => IdleLines(trace', id) = IdleLines(trace, id)]_vars

\* C30, amended: an iteration that sets the pane's last-change time to now
\* stores the clock reading of cmd.go:671, classifies by it and not by the
\* time the pane record was built, and so emits an idle line exactly when
\* the clock advances by idleThreshold or more between cmd.go:671 and
\* detectIdle; the idle age is measured from that capture, never from before
\* the pane's first successful capture.
C30_IdleOnlyByDelayWhenJustChanged ==
    [][\A id \in PaneIDs, out \in Outputs :
        (/\ Captured(id, out)
         /\ id \notin DOMAIN paneOutputs \/ paneOutputs[id] # out)
            => /\ paneLastChange'[id] = now
               /\ pc' = "scan" => panes'[i].LastChangeAt = now
               /\ IdleLines(trace', id) - IdleLines(trace, id) =
                    (IF now' - now >= idleThreshold THEN 1 ELSE 0)]_vars

\* The first pane of the tick was captured for the first time after its
\* record was built; measured from the build time (which the second record
\* still shows) it would be idle, measured from the capture it is not.
C30_Witness ==
    /\ pc = "scan"
    /\ i = 2
    /\ idleThreshold > 0
    /\ allChanged[panes[1].ID]
    /\ panes[1].ID \in DOMAIN paneLastChange
    /\ paneLastChange[panes[1].ID] = now
    /\ panes[1].LastChangeAt = now
    /\ panes[2].LastChangeAt < now
    /\ now - panes[2].LastChangeAt >= idleThreshold
    /\ IdleLines(trace, panes[1].ID) = 0

\* ================================================================ config.go
\* Arguments after the program name (os.Args[1:]) are whole strings here: the
\* switch of parseGlobalFlags compares them by equality only.
MaxArgs == 3

ArgChoices == {"--claude", "--codex", "--set-default-agent", "create", "gemini"}

defaultAgentCommand == "claude"

\* Contents of ~/.config/tmux-agent/config.json: no such file, a file that is
\* not JSON, or a JSON object with a default_agent field.
NoFile == [kind |-> "missing"]
Garbage == [kind |-> "garbage"]
ConfigFile(agent) == [kind |-> "json", default_agent |-> agent]
ConfigFiles == {NoFile, Garbage} \cup {ConfigFile(a) : a \in {"", "claude", "codex"}}

\* What os.MkdirAll / os.WriteFile do in saveConfig: both succeed, one of them
\* fails before the file is touched, or the write fails after the file was
\* truncated.
SaveOutcomes == {"ok", "fails", "fails truncated"}

\* loadConfig: the defaults unless the file holds a non-empty default_agent.
loadConfig(file) ==
    IF file.kind = "json" /\ file.default_agent # ""
    THEN [DefaultAgent |-> file.default_agent]
    ELSE [DefaultAgent |-> defaultAgentCommand]

\* saveConfig: the file after the call and the error it returns.
saveConfig(cfg, file, save) ==
    IF save = "ok" THEN [file |-> ConfigFile(cfg.DefaultAgent), err |-> FALSE]
    ELSE IF save = "fails" THEN [file |-> file, err |-> TRUE]
    ELSE [file |-> Garbage, err |-> TRUE]

\* The case "--set-default-agent" with a value: save, then print and return
\* (nil, true), or os.Exit(1) when saving failed.
SetDefaultAgent(st, value, save) ==
    LET cfg   == [st.cfg EXCEPT !.DefaultAgent = value]
        saved == saveConfig(cfg, st.file, save)
    IN  IF saved.err
        THEN [st EXCEPT !.cfg = cfg, !.file = saved.file, !.exit = 1,
                        !.remaining = <<>>]
        ELSE [st EXCEPT !.cfg = cfg, !.file = saved.file, !.returned = TRUE,
                        !.remaining = <<>>, !.handled = TRUE,
                        !.stdout = <<"Default agent set to", value>>]

\* A variant of the loop in which the flags --claude and --codex are consumed
\* without overriding the configured agent.
RECURSIVE FlagsLoop_ConfigWins(_, _, _, _)
FlagsLoop_ConfigWins(args, k, st, save) ==
    IF k > Len(args) THEN [st EXCEPT !.returned = TRUE]
    ELSE IF args[k] \in {"--claude", "--codex"}
         THEN FlagsLoop_ConfigWins(args, k + 1, st, save)
    ELSE IF args[k] = "--set-default-agent"
         THEN IF k + 1 <= Len(args)
              THEN SetDefaultAgent(st, args[k + 1], save)
              ELSE FlagsLoop_ConfigWins(args, k + 1, st, save)
    ELSE FlagsLoop_ConfigWins(args, k + 1,
                              [st EXCEPT !.remaining = Append(@, args[k])], save)

\* The loop of parseGlobalFlags from index k (1-based) on.
RECURSIVE FlagsLoop(_, _, _, _)
FlagsLoop(args, k, st, save) ==
    IF k > Len(args) THEN [st EXCEPT !.returned = TRUE]
    ELSE IF args[k] = "--claude"
         THEN FlagsLoop(args, k + 1, [st EXCEPT !.activeAgent = "claude"], save)
    ELSE IF args[k] = "--codex"
         THEN FlagsLoop(args, k + 1, [st EXCEPT !.activeAgent = "codex"], save)
    ELSE IF args[k] = "--set-default-agent"
         THEN IF k + 1 <= Len(args)
              THEN SetDefaultAgent(st, args[k + 1], save)
              ELSE FlagsLoop(args, k + 1, st, save)
    ELSE FlagsLoop(args, k + 1, [st EXCEPT !.remaining = Append(@, args[k])], save)

\* parseGlobalFlags(args) with the config file and the outcome of a save:
\* remaining, handled, the global activeAgent, the file afterwards, and
\* whether the function returned or the process exited with status 1.
parseGlobalFlags(args, file, save) ==
    LET cfg == loadConfig(file)
    IN  FlagsLoop(args, 1,
                  [cfg |-> cfg, activeAgent |-> cfg.DefaultAgent,
                   remaining |-> <<>>, handled |-> FALSE, returned |-> FALSE,
                   exit |-> 0, file |-> file, stdout |-> <<>>],
                  save)

\* ---------------------------------------------------------------- FlagsSpec
CallParseGlobalFlags(args, file, save) ==
    [fn |-> "parseGlobalFlags", args |-> args, file |-> file, save |-> save,
     done |-> FALSE, out |-> parseGlobalFlags(<<>>, NoFile, "ok")]

FlagsInit ==
    /\ WatchInit({0})
    /\ \E n \in 0..MaxArgs : \E args \in [1..n -> ArgChoices] :
         \E file \in ConfigFiles : \E save \in SaveOutcomes :
           pure = CallParseGlobalFlags(args, file, save)

ApplyParseGlobalFlags ==
    /\ pure.fn = "parseGlobalFlags"
    /\ ~pure.done
    /\ pure' = [pure EXCEPT !.done = TRUE,
                            !.out = parseGlobalFlags(pure.args, pure.file, pure.save)]
    /\ UNCHANGED watchVars

FlagsSpec == FlagsInit /\ [][ApplyParseGlobalFlags]_vars

\* ------------------------------------------------------------------- C25
\* The agent flags of an argument list, and its other arguments.
IsAgentFlag(a) == a \in {"--claude", "--codex"}
AgentOfFlag(a) == IF a = "--claude" THEN "claude" ELSE "codex"
LastAgentFlag(args) ==
    CHOOSE k \in 1..Len(args) :
        IsAgentFlag(args[k]) /\ \A j \in (k + 1)..Len(args) : ~IsAgentFlag(args[j])
\* The agent the claim expects: the persisted default, overridden by the
\* last --claude/--codex flag.
PersistedDefault(file) ==
    IF file.kind = "json" /\ file.default_agent # "" THEN file.default_agent
    ELSE "claude"
ExpectedAgent(args, file) ==
    IF \E k \in 1..Len(args) : IsAgentFlag(args[k])
    THEN AgentOfFlag(args[LastAgentFlag(args)])
    ELSE PersistedDefault(file)
NotAgentFlag(a) == ~IsAgentFlag(a)
NotGlobalFlag(a) == a \notin {"--claude", "--codex", "--set-default-agent"}
\* --set-default-agent occurs with an argument after it.
SetsDefault(args) ==
    \E k \in 1..(Len(args) - 1) : args[k] = "--set-default-agent"
FirstSetDefault(args) ==
    CHOOSE k \in 1..(Len(args) - 1) :
        args[k] = "--set-default-agent"
        /\ \A j \in 1..(k - 1) : args[j] # "--set-default-agent"
FlagsDone == pure.fn = "parseGlobalFlags" /\ pure.done

\* C25 (as stated): every call of parseGlobalFlags leaves the active agent at
\* the persisted default overridden by the last --claude/--codex flag, returns
\* all other arguments in their order with handled = false, and changes the
\* persisted configuration only if --set-default-agent has a value.
C25_ReturnsOthersUnhandled ==
    FlagsDone =>
        /\ pure.out.returned
        /\ pure.out.activeAgent = ExpectedAgent(pure.args, pure.file)
        /\ pure.out.remaining = SelectSeq(pure.args, NotAgentFlag)
        /\ pure.out.handled = FALSE
        /\ (pure.out.file # pure.file => SetsDefault(pure.args))

\* C25 (amended): without a valued --set-default-agent the call returns, the
\* active agent is the persisted default overridden by the last agent flag,
\* the arguments other than the three global flags come back in order with
\* handled = false, and the file is untouched; with one, only the agent flags
\* before it take effect, the value is saved as default agent and the call
\* returns (nil, true), or the process exits with status 1 when saving fails.
C25_GlobalFlags ==
    FlagsDone =>
        IF ~SetsDefault(pure.args)
        THEN /\ pure.out.returned /\ pure.out.exit = 0
             /\ pure.out.activeAgent = ExpectedAgent(pure.args, pure.file)
             /\ pure.out.remaining = SelectSeq(pure.args, NotGlobalFlag)
             /\ pure.out.handled = FALSE
             /\ pure.out.file = pure.file
        ELSE LET k      == FirstSetDefault(pure.args)
                 before == SubSeq(pure.args, 1, k - 1)
             IN  /\ pure.out.activeAgent = ExpectedAgent(before, pure.file)
                 /\ pure.out.remaining = <<>>
                 /\ IF pure.save = "ok"
                    THEN /\ pure.out.returned /\ pure.out.exit = 0
                         /\ pure.out.handled = TRUE
                         /\ pure.out.file = ConfigFile(pure.args[k + 1])
                    ELSE /\ ~pure.out.returned /\ pure.out.exit = 1
                         /\ pure.out.file \in {pure.file, Garbage}

\* A call with a configured codex, a later --claude flag after a --codex flag
\* and another argument has returned.
C25_Witness ==
    /\ FlagsDone
    /\ pure.file = ConfigFile("codex")
    /\ pure.args = <<"--codex", "create", "--claude">>
    /\ pure.out.activeAgent = "claude"
    /\ pure.out.remaining = <<"create">>

\* ==================================================== tmux.go: sendTmuxKeys
\* Pieces the text handed to sendTmuxKeys is put together from.
MaxChunks == 3

KeyChunks ==
    { <<"g", "o">>, <<"c">>, <<Space>>, <<NL>>, <<CR>>,
      <<"C", "-", "m">>, <<"E", "n", "t", "e", "r">>, <<"\\", "N">> }

RECURSIVE Concat(_)
Concat(chunks) == IF chunks = <<>> THEN <<>> ELSE Head(chunks) \o Concat(Tail(chunks))

HasPrefix(s, prefix) ==
    Len(s) >= Len(prefix) /\ SubSeq(s, 1, Len(prefix)) = prefix

\* strings.ReplaceAll(s, old, new) for a non-empty old.
RECURSIVE ReplaceAll(_, _, _)
ReplaceAll(s, old, new) ==
    IF s = <<>> THEN <<>>
    ELSE IF HasPrefix(s, old)
         THEN new \o ReplaceAll(SubSeq(s, Len(old) + 1, Len(s)), old, new)
         ELSE <<Head(s)>> \o ReplaceAll(Tail(s), old, new)

\* Case folding of the flag (?i), on the letters of the three key names.
Fold(c) ==
    CASE c = "C" -> "c" [] c = "M" -> "m" [] c = "E" -> "e" [] c = "N" -> "n"
      [] c = "T" -> "t" [] c = "R" -> "r" [] OTHER -> c
FoldAll(s) == [k \in DOMAIN s |-> Fold(s[k])]

\* The alternatives C-m, Enter and \n (a backslash and an n) of
\* sendKeysTrailingRe, folded.
TrailingKeys == { <<"c", "-", "m">>, <<"e", "n", "t", "e", "r">>, <<"\\", "n">> }

\* s as a whole matches (\s*(C-m|Enter|\\n))+\s* .
RECURSIVE MatchesTrailing(_)
MatchesTrailing(s) ==
    LET t == TrimLeft(s)
    IN  \E key \in TrailingKeys :
          /\ HasPrefix(FoldAll(t), key)
          /\ LET rest == SubSeq(t, Len(key) + 1, Len(t))
             IN  IF TrimLeft(rest) = <<>> THEN TRUE ELSE MatchesTrailing(rest)

\* sendKeysTrailingRe.ReplaceAllString(s, ""): the pattern ends in $, so the
\* one match is the suffix from the leftmost position at which one starts.
StripTrailingKeys(s) ==
    LET starts == {k \in 1..Len(s) : MatchesTrailing(SubSeq(s, k, Len(s)))}
    IN  IF starts = {} THEN s
        ELSE SubSeq(s, 1, (CHOOSE k \in starts : \A j \in starts : k <= j) - 1)

\* tmux.go:180-184.
NormaliseKeys(keys) ==
    LET a == ReplaceAll(keys, <<CR, NL>>, <<Space>>)
        b == ReplaceAll(a, <<NL>>, <<Space>>)
        c == ReplaceAll(b, <<CR>>, <<Space>>)
    IN  TrimSpace(StripTrailingKeys(c))

\* The two tmux command lines of sendTmuxKeys (argv after "tmux").
SendLiteral(paneID, keys) == <<"send-keys", "-t", paneID, "-l", "--", keys>>
SendEnter(paneID) == <<"send-keys", "-t", paneID, "C-m">>

NoErr == "nil"

\* sendTmuxKeys submitting with a single C-m.
sendTmuxKeys_OneEnter(paneID, keys, failAt) ==
    LET k == NormaliseKeys(keys)
    IN  IF k = <<>> THEN [calls |-> <<>>, err |-> NoErr]
        ELSE IF failAt = 1
             THEN [calls |-> <<SendLiteral(paneID, k)>>, err |-> "tmux send-keys -l"]
        ELSE [calls |-> <<SendLiteral(paneID, k), SendEnter(paneID)>>,
              err |-> IF failAt = 2 THEN "tmux send-keys (enter)" ELSE NoErr]

\* sendTmuxKeys(paneID, keys): the tmux invocations made, in order, and the
\* error returned. failAt numbers the invocation that fails (0: none does).
sendTmuxKeys(paneID, keys, failAt) ==
    LET k == NormaliseKeys(keys)
    IN  IF k = <<>> THEN [calls |-> <<>>, err |-> NoErr]
        ELSE IF failAt = 1
             THEN [calls |-> <<SendLiteral(paneID, k)>>, err |-> "tmux send-keys -l"]
        ELSE IF failAt = 2
             THEN [calls |-> <<SendLiteral(paneID, k), SendEnter(paneID)>>,
                   err |-> "tmux send-keys (enter)"]
        ELSE [calls |-> <<SendLiteral(paneID, k), SendEnter(paneID), SendEnter(paneID)>>,
              err |-> IF failAt = 3 THEN "tmux send-keys (enter)" ELSE NoErr]

\* ----------------------------------------------------------------- KeysSpec
CallSendTmuxKeys(paneID, chunks, failAt) ==
    [fn |-> "sendTmuxKeys", paneID |-> paneID, chunks |-> chunks,
     keys |-> Concat(chunks), failAt |-> failAt,
     done |-> FALSE, out |-> [calls |-> <<>>, err |-> NoErr]]

KeysInit ==
    /\ WatchInit({0})
    /\ \E n \in 0..MaxChunks : \E chunks \in [1..n -> KeyChunks] :
         \E failAt \in 0..3 :
           pure = CallSendTmuxKeys("%1", chunks, failAt)

ApplySendTmuxKeys ==
    /\ pure.fn = "sendTmuxKeys"
    /\ ~pure.done
    /\ pure' = [pure EXCEPT !.done = TRUE,
                            !.out = sendTmuxKeys(pure.paneID, pure.keys, pure.failAt)]
    /\ UNCHANGED watchVars

KeysSpec == KeysInit /\ [][ApplySendTmuxKeys]_vars

\* ------------------------------------------------------------------- C24
\* Every "\r\n", "\n" and "\r" of s replaced by one space, in one pass.
RECURSIVE Spaced(_)
Spaced(s) ==
    IF s = <<>> THEN <<>>
    ELSE IF Len(s) >= 2 /\ s[1] = CR /\ s[2] = NL
         THEN <<Space>> \o Spaced(SubSeq(s, 3, Len(s)))
    ELSE IF s[1] \in {CR, NL} THEN <<Space>> \o Spaced(Tail(s))
    ELSE <<s[1]>> \o Spaced(Tail(s))

\* s consists of white space and key names C-m, Enter, \n only.
RECURSIVE OnlyKeysAndSpace(_)
OnlyKeysAndSpace(s) ==
    IF s = <<>> THEN TRUE
    ELSE IF IsSpace(s[1]) THEN OnlyKeysAndSpace(Tail(s))
    ELSE \E key \in TrailingKeys :
           /\ Len(s) >= Len(key)
           /\ FoldAll(SubSeq(s, 1, Len(key))) = key
           /\ OnlyKeysAndSpace(SubSeq(s, Len(key) + 1, Len(s)))

\* The normalised text the claim describes: the text with newlines as spaces
\* and leading white space dropped, cut at the first point after which only
\* white space and key names follow.
NormalText(keys) ==
    LET t    == TrimLeft(Spaced(keys))
        cuts == {k \in 0..Len(t) : OnlyKeysAndSpace(SubSeq(t, k + 1, Len(t)))}
    IN  SubSeq(t, 1, CHOOSE k \in cuts : \A j \in cuts : k <= j)

ThreeCalls(paneID, text) ==
    <<SendLiteral(paneID, text), SendEnter(paneID), SendEnter(paneID)>>

KeysDone == pure.fn = "sendTmuxKeys" /\ pure.done

\* C24 (as stated): a call with non-empty normalised text issues exactly the
\* three invocations send-keys -l text, send-keys C-m, send-keys C-m, in this
\* order; a call with empty normalised text issues none and returns no error.
C24_ExactlyThreeInvocations ==
    KeysDone =>
        LET text == NormalText(pure.keys)
        IN  IF text # <<>>
            THEN pure.out.calls = ThreeCalls(pure.paneID, text)
            ELSE pure.out.calls = <<>> /\ pure.out.err = NoErr

\* C24 (amended): the invocations issued are the three of the claim, in their
\* order, up to and including the first one that fails; all three are issued
\* and no error is returned exactly when none fails; with empty normalised
\* text nothing is issued and no error is returned.
C24_InvocationsUntilFailure ==
    KeysDone =>
        LET text == NormalText(pure.keys)
            n    == IF pure.failAt = 0 THEN 3 ELSE pure.failAt
        IN  IF text # <<>>
            THEN /\ pure.out.calls = SubSeq(ThreeCalls(pure.paneID, text), 1, n)
                 /\ (pure.out.err = NoErr) = (pure.failAt = 0)
            ELSE pure.out.calls = <<>> /\ pure.out.err = NoErr

\* A call whose text has a line break inside and key names at its end has
\* issued its three invocations.
C24_Witness ==
    /\ KeysDone
    /\ pure.chunks = << <<"g", "o">>, <<NL>>, <<"E", "n", "t", "e", "r">> >>
    /\ pure.failAt = 0
    /\ pure.out.calls = ThreeCalls("%1", <<"g", "o">>)

\* ================================== findTargetDescendant on any parent table
\* What a line of a listing can say when nothing is assumed of the parent
\* column: any listed process, the line's own process included, the pane's
\* process or a process outside; the command is a target or not.
AnyProcChoices(n) == (0..(n + 1)) \X {claude, node}

\* The pids a search can start from: the pane's process or a listed one.
RootPIDs(n) == {PanePID} \cup {PidOfLine(k) : k \in 1..n}

CallFindTargetDescendant(procs, root) ==
    [fn |-> "findTargetDescendant", procs |-> procs, psOutput |-> PsText(procs),
     root |-> root, done |-> FALSE, out |-> EmptyStr]

CycleInit ==
    /\ WatchInit({0})
    /\ \E n \in 1..MaxProcs : \E f \in [1..n -> AnyProcChoices(n)] :
         \E root \in RootPIDs(n) :
           pure = CallFindTargetDescendant(Procs(f), root)

ApplyFindTargetDescendant ==
    /\ pure.fn = "findTargetDescendant"
    /\ ~pure.done
    /\ pure' = [pure EXCEPT !.done = TRUE,
                            !.out = findTargetDescendant(buildProcessTree(pure.psOutput),
                                                         pure.root,
                                                         StackDepth(pure.psOutput))]
    /\ UNCHANGED watchVars

CycleSpec == CycleInit /\ [][ApplyFindTargetDescendant]_vars

\* ------------------------------------------------------------------- C29
\* C29: findTargetDescendant returns a result (a command or "") for every
\* listing and every root, also when the parent column has a cycle below the
\* root: the search never runs out of stack.
C29_AlwaysReturns ==
    (pure.fn = "findTargetDescendant" /\ pure.done) => pure.out # StackOverflow

\* ================ parsePaneList when ps fails for some of the lookups only
\* lookupChildProcess runs ps anew for every pane it is asked about
\* (tmux.go:89), so the command can fail for one pane and print the table for
\* the next: failed holds the pane pids for which it fails.
FullRowChoices == {claude, node} \X {4}

CallParsePaneListPsFailing(rows, procs, failed) ==
    [fn |-> "parsePaneList+failing ps", rows |-> rows, output |-> TmuxText(rows),
     procs |-> procs, failed |-> failed,
     done |-> FALSE, out |-> <<>>, unfailing |-> <<>>]

DegradeInit ==
    /\ WatchInit({0})
    /\ \E n \in 1..MaxPaneRows : \E f \in [1..n -> FullRowChoices] :
       \E m \in 0..(MaxProcs - 1) : \E g \in [1..m -> AnyProcChoices(m)] :
       \E failed \in SUBSET {PanePidOfRow(k) : k \in 1..n} :
           /\ IsForest(g)
           /\ pure = CallParsePaneListPsFailing(PaneRows(f), Procs(g), failed)

\* The call, and next to it the same call in a run in which ps never fails.
ApplyParsePaneListPsFailing ==
    /\ pure.fn = "parsePaneList+failing ps"
    /\ ~pure.done
    /\ LET pids == {pure.rows[k][3] : k \in DOMAIN pure.rows}
           text == PsText(pure.procs)
           childLookupFn ==
               [pid \in pids |->
                   lookupChildProcess(IF pid \in pure.failed THEN PsFailed(text)
                                      ELSE PsPrinted(text), pid)]
           neverFails == [pid \in pids |-> lookupChildProcess(PsPrinted(text), pid)]
       IN  pure' = [pure EXCEPT
                      !.done = TRUE,
                      !.out = parsePaneList(pure.output, childLookupFn,
                                            ClockFrom(0, 0)).panes,
                      !.unfailing = parsePaneList(pure.output, neverFails,
                                                  ClockFrom(0, 0)).panes]
    /\ UNCHANGED watchVars

DegradeSpec == DegradeInit /\ [][ApplyParsePaneListPsFailing]_vars

\* ------------------------------------------------------------------- C21
ParsedWithPsFailing == pure.fn = "parsePaneList+failing ps" /\ pure.done

\* The pids of the panes whose fallback lookup met a failing ps: the command
\* of the row is not a target, and ps fails for the pane.
FailedLookups ==
    {pure.rows[k][3] : k \in {j \in DOMAIN pure.rows :
                                 /\ ~IsTargetName(pure.rows[j][2])
                                 /\ pure.rows[j][3] \in pure.failed}}

LookupDidNotFail(p) == p.PID \notin FailedLookups

\* C21: parsePaneList still returns its list when ps fails for some panes;
\* no pane whose lookup failed is in it, and the other rows are in it or not,
\* with the same fields and in the same order, as in a run without failures.
C21_OnlyFailedPaneExcluded ==
    ParsedWithPsFailing =>
        /\ \A j \in DOMAIN pure.out : pure.out[j].PID \notin FailedLookups
        /\ pure.out = SelectSeq(pure.unfailing, LookupDidNotFail)

\* Two node panes with a claude child each; ps fails for the first only, and
\* the second alone is in the result.
C21_Witness ==
    /\ ParsedWithPsFailing
    /\ Len(pure.rows) = 2
    /\ pure.rows[1][2] = node /\ pure.rows[2][2] = node
    /\ pure.failed = {pure.rows[1][3]}
    /\ Len(pure.unfailing) = 2
    /\ Len(pure.out) = 1
    /\ pure.out[1].ID = pure.rows[2][1]

\* ================================================ cmd.go: one-off commands
\* The commands run once and return to main; their arguments are taken to be
\* well formed (no usage error, no invalid --lines or --idle value).
\* A result of listTmuxPanes (tmux.go:157-164): an error, or the records
\* parsePaneList made at time 0, a claude pane first and codex panes after it.
ListResults ==
    {[err |-> TRUE, panes |-> <<>>]} \cup
    {[err |-> FALSE,
      panes |-> [j \in 1..n |-> paneInfo(PaneID(j), IF j = 1 THEN claude ELSE codex,
                                         PanePidOfRow(j), PaneDir, 0)]] :
        n \in 0..MaxPaneRows}

\* A result of capturePaneOutput (tmux.go:167-174): an error with "", or the
\* trimmed text of the pane.
CaptureResults ==
    {[err |-> TRUE, out |-> EmptyStr],
     [err |-> FALSE, out |-> <<"a">>],
     [err |-> FALSE, out |-> <<"a", NL, "b">>]}

\* truncateLastLine (cmd.go:33-43).
truncateLastLine(output, maxLen) ==
    IF output = EmptyStr THEN EmptyStr
    ELSE LET lines == Split(output, NL)
             last  == lines[Len(lines)]
         IN  IF Len(last) > maxLen
             THEN SubSeq(last, 1, maxLen - 3) \o <<".", ".", ".">>
             ELSE last

\* filepath.Base: "." for the empty path, trailing slashes dropped, then the
\* text after the last slash; "/" for a path of slashes only.
filepathBase(path) ==
    LET kept == {k \in 1..Len(path) : path[k] # Slash} IN
    IF path = EmptyStr THEN <<".">>
    ELSE IF kept = {} THEN <<Slash>>
    ELSE Basename(SubSeq(path, 1, CHOOSE k \in kept : \A j \in kept : j <= k))

\* shortDir (cmd.go:142-151): the text after the first "/github.com/", or
\* the last component of the directory.
shortDir(dir) ==
    LET sep  == <<Slash, "g", "i", "t", "h", "u", "b", ".", "c", "o", "m", Slash>>
        hits == {k \in 1..Len(dir) : HasPrefix(SubSeq(dir, k, Len(dir)), sep)}
    IN  IF dir = EmptyStr THEN EmptyStr
        ELSE IF hits # {}
        THEN SubSeq(dir, (CHOOSE k \in hits : \A j \in hits : k <= j) + Len(sep), Len(dir))
        ELSE filepathBase(dir)

\* What `git -C dir branch --show-current` gives (cmd.go:131-132): an error
\* (no repository), a branch name on a line, or an empty line (detached head).
GitResults ==
    {[err |-> TRUE, out |-> EmptyStr],
     [err |-> FALSE, out |-> <<"m", "a", "i", "n", NL>>],
     [err |-> FALSE, out |-> <<NL>>]}

\* gitBranch (cmd.go:130-137).
gitBranch(git) == IF git.err THEN EmptyStr ELSE TrimSpace(git.out)

\* Working directories tmux can report for a pane; the empty one is that of
\* a row without the fourth column.
PaneDirs ==
    { PaneDir, EmptyStr, <<Slash>>, <<Slash, "a", Slash, "b", Slash>>,
      <<Slash, "h", Slash, "g", "i", "t", "h", "u", "b", ".", "c", "o", "m", Slash,
        "o", Slash, "r">> }

\* runPanes (cmd.go:154-173); git[j] is what git gives for the j-th pane.
runPanes(list, git) ==
    IF list.err
    THEN [err |-> ListErr, stdout |-> <<>>, attempts |-> <<>>, panes |-> <<>>]
    ELSE [err |-> NoErr,
          stdout |-> IF list.panes = <<>> THEN << <<"No coding agent panes found">> >>
                     ELSE <<"PANE COMMAND DIR BRANCH">> \o
                          [j \in DOMAIN list.panes |->
                              <<list.panes[j].ID, list.panes[j].Command,
                                shortDir(list.panes[j].Dir), gitBranch(git[j])>>],
          attempts |-> <<>>,
          panes |-> list.panes]

\* runCapture (cmd.go:176-192).
runCapture(paneID, cap) ==
    IF cap.err
    THEN [err |-> CaptureErr, stdout |-> <<>>, attempts |-> <<>>, panes |-> <<>>]
    ELSE [err |-> NoErr, stdout |-> <<cap.out>>, attempts |-> <<>>, panes |-> <<>>]

\* runHistory (cmd.go:535-551).
runHistory(paneID, cap) ==
    IF cap.err
    THEN [err |-> CaptureErr, stdout |-> <<>>, attempts |-> <<>>, panes |-> <<>>]
    ELSE [err |-> NoErr, stdout |-> <<cap.out>>, attempts |-> <<>>, panes |-> <<>>]

\* runLogs (cmd.go:362-398); writeOk is the outcome of os.WriteFile.
runLogs(paneID, cap, writeOk) ==
    IF cap.err
    THEN [err |-> CaptureErr, stdout |-> <<>>, attempts |-> <<>>, panes |-> <<>>]
    ELSE IF ~writeOk
    THEN [err |-> "writing log file", stdout |-> <<>>, attempts |-> <<>>, panes |-> <<>>]
    ELSE [err |-> NoErr, stdout |-> << <<"Saved pane", paneID>> >>,
          attempts |-> <<>>, panes |-> <<>>]

\* runDiff (cmd.go:554-575): the second pane is captured only after the
\* first capture succeeded.
runDiff(pane1, pane2, cap1, cap2) ==
    IF cap1.err
    THEN [err |-> CaptureErr, stdout |-> <<>>, attempts |-> <<>>, panes |-> <<>>]
    ELSE IF cap2.err
    THEN [err |-> CaptureErr, stdout |-> <<>>, attempts |-> <<>>, panes |-> <<>>]
    ELSE [err |-> NoErr,
          stdout |-> << <<"=== Pane", pane1>>, cap1.out, <<"=== Pane", pane2>>, cap2.out >>,
          attempts |-> <<>>, panes |-> <<>>]

\* runStatus that leaves the listed records as they are.
runStatus_KeepsRecords(list, caps, short, threshold, clock) ==
    IF list.err
    THEN [err |-> ListErr, stdout |-> <<>>, attempts |-> <<>>, panes |-> <<>>]
    ELSE [err |-> NoErr,
          stdout |-> IF list.panes = <<>> THEN << <<"No coding agent panes found">> >>
                     ELSE IF short THEN <<statusShort(list.panes, threshold, clock)>>
                     ELSE <<"PANE COMMAND STATUS LAST OUTPUT">> \o
                          [j \in DOMAIN list.panes |->
                              <<list.panes[j].ID, list.panes[j].Command,
                                IF detectIdle(list.panes[j], threshold, clock[j])
                                THEN "idle" ELSE "active",
                                EmptyStr>>],
          attempts |-> <<>>,
          panes |-> list.panes]

\* runStatus (cmd.go:291-345): caps[j] is the result of the capture of the
\* j-th pane, clock[j] the time at which the j-th pane is classified.
runStatus(list, caps, short, threshold, clock) ==
    IF list.err
    THEN [err |-> ListErr, stdout |-> <<>>, attempts |-> <<>>, panes |-> <<>>]
    ELSE LET ps == [j \in DOMAIN list.panes |->
                       IF caps[j].err THEN list.panes[j]
                       ELSE [list.panes[j] EXCEPT !.LastOutput = caps[j].out]]
         IN  [err |-> NoErr,
              stdout |-> IF ps = <<>> THEN << <<"No coding agent panes found">> >>
                         ELSE IF short THEN <<statusShort(ps, threshold, clock)>>
                         ELSE <<"PANE COMMAND STATUS LAST OUTPUT">> \o
                              [j \in DOMAIN ps |->
                                  <<ps[j].ID, ps[j].Command,
                                    IF detectIdle(ps[j], threshold, clock[j])
                                    THEN "idle" ELSE "active",
                                    truncateLastLine(ps[j].LastOutput, 60)>>],
              attempts |-> <<>>,
              panes |-> ps]

\* runKillAll that returns the error of the first pane it cannot kill.
runKillAll_StopsAtFailure(list, failAt) ==
    IF list.err
    THEN [err |-> ListErr, stdout |-> <<>>, attempts |-> <<>>, panes |-> <<>>]
    ELSE IF \E j \in DOMAIN list.panes : failAt[j] # 0
    THEN LET first == CHOOSE j \in DOMAIN list.panes :
                          failAt[j] # 0 /\ \A k \in 1..(j - 1) : failAt[k] = 0
         IN  [err |-> "tmux kill-pane",
              stdout |-> [j \in 1..(first - 1) |->
                             <<"Killed pane", list.panes[j].ID, list.panes[j].Command>>],
              attempts |-> [j \in 1..first |-> <<"killTmuxPane", list.panes[j].ID>>],
              panes |-> list.panes]
    ELSE [err |-> NoErr,
          stdout |-> IF list.panes = <<>> THEN << <<"No coding agent panes found">> >>
                     ELSE [j \in DOMAIN list.panes |->
                              <<"Killed pane", list.panes[j].ID, list.panes[j].Command>>],
          attempts |-> [j \in DOMAIN list.panes |-> <<"killTmuxPane", list.panes[j].ID>>],
          panes |-> list.panes]

\* runKillAll (cmd.go:270-288): killTmuxPane fails for the j-th pane when
\* failAt[j] is not 0.
runKillAll(list, failAt) ==
    IF list.err
    THEN [err |-> ListErr, stdout |-> <<>>, attempts |-> <<>>, panes |-> <<>>]
    ELSE [err |-> NoErr,
          stdout |-> IF list.panes = <<>> THEN << <<"No coding agent panes found">> >>
                     ELSE [j \in DOMAIN list.panes |->
                              IF failAt[j] # 0
                              THEN <<"Error killing pane", list.panes[j].ID>>
                              ELSE <<"Killed pane", list.panes[j].ID,
                                     list.panes[j].Command>>],
          attempts |-> [j \in DOMAIN list.panes |-> <<"killTmuxPane", list.panes[j].ID>>],
          panes |-> list.panes]

\* runBroadcast (cmd.go:401-424) with at least one word of text: failAt[j]
\* numbers the tmux invocation that fails in sendTmuxKeys for the j-th pane.
runBroadcast(text, list, failAt) ==
    IF list.err
    THEN [err |-> ListErr, stdout |-> <<>>, attempts |-> <<>>, panes |-> <<>>]
    ELSE [err |-> NoErr,
          stdout |-> IF list.panes = <<>> THEN << <<"No coding agent panes found">> >>
                     ELSE [j \in DOMAIN list.panes |->
                              IF sendTmuxKeys(list.panes[j].ID, text, failAt[j]).err # NoErr
                              THEN <<"Error sending to pane", list.panes[j].ID>>
                              ELSE <<"Sent to pane", list.panes[j].ID,
                                     list.panes[j].Command>>],
          attempts |-> [j \in DOMAIN list.panes |->
                           <<"sendTmuxKeys", list.panes[j].ID, text>>],
          panes |-> list.panes]

\* ------------------------------------------------------------------ OpsSpec
\* One run of a command: what the listing and the captures give, which
\* actions on panes fail, and the flags of status.
CallOneOff(cmd, list, caps, failAt, flags) ==
    [fn |-> cmd, list |-> list, caps |-> caps, failAt |-> failAt, flags |-> flags,
     done |-> FALSE,
     out |-> [err |-> NoErr, stdout |-> <<>>, attempts |-> <<>>, panes |-> <<>>]]

NoFlags == [short |-> FALSE, threshold |-> 0, clock |-> 0, writeOk |-> TRUE, git |-> <<>>]

OpsInit ==
    /\ WatchInit({0})
    /\ \/ \E list \in ListResults :
          \E dirs \in [DOMAIN list.panes -> PaneDirs] :
          \E git \in [DOMAIN list.panes -> GitResults] :
            pure = CallOneOff("panes",
                              [list EXCEPT !.panes = [j \in DOMAIN list.panes |->
                                              [list.panes[j] EXCEPT !.Dir = dirs[j]]]],
                              <<>>, <<>>, [NoFlags EXCEPT !.git = git])
       \/ \E cap \in CaptureResults : \E cmd \in {"capture", "history"} :
            pure = CallOneOff(cmd, [err |-> FALSE, panes |-> <<>>], <<cap>>, <<>>, NoFlags)
       \/ \E cap \in CaptureResults : \E writeOk \in BOOLEAN :
            pure = CallOneOff("logs", [err |-> FALSE, panes |-> <<>>], <<cap>>, <<>>,
                              [NoFlags EXCEPT !.writeOk = writeOk])
       \/ \E cap1, cap2 \in CaptureResults :
            pure = CallOneOff("diff", [err |-> FALSE, panes |-> <<>>], <<cap1, cap2>>, <<>>, NoFlags)
       \/ \E list \in ListResults : \E caps \in [DOMAIN list.panes -> CaptureResults] :
          \E short \in BOOLEAN : \E threshold \in 0..MaxThreshold : \E t \in 0..MaxTime :
            pure = CallOneOff("status", list, caps, <<>>,
                              [NoFlags EXCEPT !.short = short, !.threshold = threshold,
                                              !.clock = t])
       \/ \E list \in ListResults : \E failAt \in [DOMAIN list.panes -> 0..1] :
            pure = CallOneOff("kill-all", list, <<>>, failAt, NoFlags)
       \/ \E list \in ListResults : \E failAt \in [DOMAIN list.panes -> 0..3] :
            pure = CallOneOff("broadcast", list, <<>>, failAt, NoFlags)

ApplyRunPanes ==
    /\ pure.fn = "panes" /\ ~pure.done
    /\ pure' = [pure EXCEPT !.done = TRUE, !.out = runPanes(pure.list, pure.flags.git)]
    /\ UNCHANGED watchVars

ApplyRunCapture ==
    /\ pure.fn = "capture" /\ ~pure.done
    /\ pure' = [pure EXCEPT !.done = TRUE, !.out = runCapture(PaneID(1), pure.caps[1])]
    /\ UNCHANGED watchVars

ApplyRunHistory ==
    /\ pure.fn = "history" /\ ~pure.done
    /\ pure' = [pure EXCEPT !.done = TRUE, !.out = runHistory(PaneID(1), pure.caps[1])]
    /\ UNCHANGED watchVars

ApplyRunLogs ==
    /\ pure.fn = "logs" /\ ~pure.done
    /\ pure' = [pure EXCEPT !.done = TRUE,
                            !.out = runLogs(PaneID(1), pure.caps[1], pure.flags.writeOk)]
    /\ UNCHANGED watchVars

ApplyRunDiff ==
    /\ pure.fn = "diff" /\ ~pure.done
    /\ pure' = [pure EXCEPT !.done = TRUE,
                            !.out = runDiff(PaneID(1), PaneID(2), pure.caps[1], pure.caps[2])]
    /\ UNCHANGED watchVars

ApplyRunStatus ==
    /\ pure.fn = "status" /\ ~pure.done
    /\ pure' = [pure EXCEPT !.done = TRUE,
                            !.out = runStatus(pure.list, pure.caps, pure.flags.short,
                                              pure.flags.threshold,
                                              ClockFrom(pure.flags.clock, 0))]
    /\ UNCHANGED watchVars

ApplyRunKillAll ==
    /\ pure.fn = "kill-all" /\ ~pure.done
    /\ pure' = [pure EXCEPT !.done = TRUE, !.out = runKillAll(pure.list, pure.failAt)]
    /\ UNCHANGED watchVars

ApplyRunBroadcast ==
    /\ pure.fn = "broadcast" /\ ~pure.done
    /\ pure' = [pure EXCEPT !.done = TRUE,
                            !.out = runBroadcast(<<"g", "o">>, pure.list, pure.failAt)]
    /\ UNCHANGED watchVars

OpsNext ==
    \/ ApplyRunPanes
    \/ ApplyRunCapture
    \/ ApplyRunHistory
    \/ ApplyRunLogs
    \/ ApplyRunDiff
    \/ ApplyRunStatus
    \/ ApplyRunKillAll
    \/ ApplyRunBroadcast

OpsSpec == OpsInit /\ [][OpsNext]_vars

\* ------------------------------------------------------------------- C22
OneOffDone ==
    /\ pure.fn \in {"panes", "capture", "history", "diff", "logs", "status",
                    "kill-all", "broadcast"}
    /\ pure.done

\* The command lists the panes, and the listing failed.
ListingFailed ==
    pure.fn \in {"panes", "status", "kill-all", "broadcast"} /\ pure.list.err

\* The command captured a pane, and the capture failed.
CaptureFailed ==
    \/ pure.fn \in {"capture", "history", "logs"} /\ pure.caps[1].err
    \/ pure.fn = "diff" /\ (pure.caps[1].err \/ pure.caps[2].err)
    \/ pure.fn = "status" /\ ~pure.list.err /\ \E j \in DOMAIN pure.caps : pure.caps[j].err

\* C22: a one-off command in which the listing of the panes or the capture
\* of a pane failed returns that failure as its error.
C22_FailuresReturned ==
    OneOffDone =>
        /\ ListingFailed => pure.out.err = ListErr
        /\ CaptureFailed => pure.out.err = CaptureErr

\* ------------------------------------------------------------------- C23
ListedOk ==
    OneOffDone /\ pure.fn \in {"panes", "status", "kill-all", "broadcast"} /\ ~pure.list.err

\* C23 (as stated): status, panes, kill-all and broadcast leave every field
\* of the records parsePaneList gave them as it was.
C23_OneOffWritesNothing == ListedOk => pure.out.panes = pure.list.panes

\* C23 (amended): panes, kill-all and broadcast leave the records as they
\* were; status leaves ID, Command, PID, Dir and LastChangeAt as they were and
\* sets LastOutput of each pane whose capture succeeded to the captured text.
C23_OnlyStatusWritesLastOutput ==
    ListedOk =>
        IF pure.fn # "status" THEN pure.out.panes = pure.list.panes
        ELSE /\ Len(pure.out.panes) = Len(pure.list.panes)
             /\ \A j \in DOMAIN pure.list.panes :
                  LET before == pure.list.panes[j]
                      after  == pure.out.panes[j]
                  IN  /\ after.ID = before.ID
                      /\ after.Command = before.Command
                      /\ after.PID = before.PID
                      /\ after.Dir = before.Dir
                      /\ after.LastChangeAt = before.LastChangeAt
                      /\ after.LastOutput = IF pure.caps[j].err THEN before.LastOutput
                                            ELSE pure.caps[j].out

\* status has run on two panes: the capture of the first gave a text, which
\* is now its LastOutput, and the capture of the second failed.
C23_Witness ==
    /\ ListedOk
    /\ pure.fn = "status"
    /\ Len(pure.list.panes) = 2
    /\ ~pure.caps[1].err /\ pure.caps[2].err
    /\ pure.out.panes[1].LastOutput = pure.caps[1].out
    /\ pure.out.panes[1].LastOutput # pure.list.panes[1].LastOutput
    /\ pure.out.panes[2] = pure.list.panes[2]

\* ------------------------------------------------------------------- C26
ActedOnAll == OneOffDone /\ pure.fn \in {"kill-all", "broadcast"} /\ ~pure.list.err

\* C26: kill-all and broadcast act on every listed pane once, in the order
\* of the listing; a pane on which the action fails gets an error line, the
\* others a success line, and the command returns no error.
C26_EveryPaneAttemptedOnce ==
    ActedOnAll =>
        /\ pure.out.err = NoErr
        /\ Len(pure.out.attempts) = Len(pure.list.panes)
        /\ \A j \in DOMAIN pure.list.panes :
             /\ pure.out.attempts[j][1] =
                    (IF pure.fn = "kill-all" THEN "killTmuxPane" ELSE "sendTmuxKeys")
             /\ pure.out.attempts[j][2] = pure.list.panes[j].ID
        /\ pure.list.panes # <<>> =>
             /\ Len(pure.out.stdout) = Len(pure.list.panes)
             /\ \A j \in DOMAIN pure.list.panes :
                  /\ pure.out.stdout[j][2] = pure.list.panes[j].ID
                  /\ pure.out.stdout[j][1] =
                       (IF pure.fn = "kill-all"
                        THEN (IF pure.failAt[j] # 0 THEN "Error killing pane"
                              ELSE "Killed pane")
                        ELSE (IF pure.failAt[j] # 0 THEN "Error sending to pane"
                              ELSE "Sent to pane"))

\* kill-all on two panes: the first could not be killed, the second was.
C26_Witness ==
    /\ ActedOnAll
    /\ pure.fn = "kill-all"
    /\ Len(pure.list.panes) = 2
    /\ pure.failAt = <<1, 0>>
    /\ Len(pure.out.attempts) = 2
    /\ pure.out.stdout[1][1] = "Error killing pane"
    /\ pure.out.stdout[2][1] = "Killed pane"

====
